---- MODULE Spec2Model ----
(***************************************************************************)
(* apilog-view: the multi-source log aggregation engine.                   *)
(*                                                                         *)
(*   SpecCache  batch-file retrieval and the caches of the file-backed     *)
(*              and database-style adapters (fileApiService,               *)
(*              supabaseS3Service, supabaseService, SourceForm).           *)
(*   SpecMerge  the cross-source merge orchestrator (useMergedLogs).       *)
(*   SpecQuery  the query identity of the merged query (filter store and   *)
(*              the useQuery observer of useMergedLogs).                   *)
(***************************************************************************)
EXTENDS Integers, Sequences, FiniteSets, TLC

VARIABLES
    \* ---- source store (stores/sourceStore) ----
    sources,            \* LogSource[]: sequence of source records
    selectedSourceIds,  \* string[]: sequence of source ids
    \* ---- filter store (stores/filterStore) ----
    filters, sort, page, pageSize, refreshTick,
    \* ---- caches of the adapters ----
    now,                \* Date.now(), in ms
    fileCache,          \* fileApiService: Map sourceId -> {entries, fetchedAt, tick}
    entryCache,         \* supabaseS3Service: Map sourceId -> entries
    clientCacheS3,      \* supabaseS3Service: Map "url::anonKey" -> client (its key set)
    clientCacheDb,      \* supabaseService:   Map "url::anonKey" -> client (its key set)
    loads,              \* the fetchPage calls on file-backed sources, in call order
    written,            \* history: per source, when and with which tick its slot was last written
    edits,              \* history: the saved configuration edits
    \* ---- one merged query (useMergedLogs queryFn) ----
    phase, calls, dispatched, merged,
    \* ---- the useQuery observer of useMergedLogs ----
    queryCache,         \* the query cache: Map queryKey -> data of the last settled fetch
    inFlight,           \* Map queryKey -> parameters the running queryFn was called with
    lastDefined,        \* the observer's last query with data (<<>>: none)
    fetches,            \* number of queryFn runs started
    staleArrived,       \* history: a fetch settled after its query was abandoned
    \* ---- one reload of a file-backed source, file by file ----
    remote,             \* what the store lists: the objects under the prefix, name descending
    reload,             \* the running loadS3Entries / loadAllEntries / REST call
    requests,           \* history: the kinds of request the call has issued
    \* ---- the engine's pure functions ----
    input,              \* the arguments of the function under evaluation
    output,             \* its result (<<>>: not evaluated yet)
    \* ---- the pages' controls (SettingsPage, SourceCard, SourceForm, toolbar) ----
    autoRefreshInterval,\* filterStore.autoRefreshInterval, in ms (0: off)
    lastOp,             \* history: the last store operation
    nextId,             \* number of ids crypto.randomUUID has handed out
    exported,           \* the last downloaded export file (<<>>: none)
    importData          \* SettingsPage.importData: the list the import dialog shows (<<>>: null)

storeVars == <<sources, selectedSourceIds>>
filterVars == <<filters, sort, page, pageSize, refreshTick>>
cacheVars == <<now, fileCache, entryCache, clientCacheS3, clientCacheDb, loads, written, edits>>
mergeVars == <<phase, calls, dispatched, merged>>
queryVars == <<queryCache, inFlight, lastDefined, fetches, staleArrived>>
loadVars == <<remote, reload, requests>>
evalVars == <<input, output>>
uiVars == <<autoRefreshInterval, lastOp, nextId, exported, importData>>
restVars == <<loadVars, evalVars, uiVars>>
vars == <<storeVars, filterVars, cacheVars, mergeVars, queryVars, restVars>>

(***************************************************************************)
(* Bounds of the model.                                                    *)
(***************************************************************************)
MaxLoads == 2       \* fetchPage calls on file-backed sources
MaxSteps == 2       \* clock advances, each of half the TTL
MaxTick == 1        \* manual refreshes
MaxEdits == 1       \* saved configuration edits
MaxPage == 2        \* entries in one source's page
MaxVal == 2         \* distinct values of a sortable field
MaxFetches == 3     \* runs of the merged query's queryFn

(***************************************************************************)
(* Maps (JavaScript Map): a function whose domain is the set of keys.      *)
(***************************************************************************)
EmptyMap == [k \in {} |-> 0]
MapSet(m, key, v) == [k \in DOMAIN m \cup {key} |-> IF k = key THEN v ELSE m[k]]
MapDelete(m, key) == [k \in DOMAIN m \ {key} |-> m[k]]

SeqToSet(s) == {s[i] : i \in 1..Len(s)}

(***************************************************************************)
(* Objects (JavaScript): a function whose domain is the set of own keys.   *)
(* A key may hold undefined; reading a key the object lacks gives          *)
(* undefined too.                                                          *)
(***************************************************************************)
undefined == "undefined"
Get(obj, key) == IF key \in DOMAIN obj THEN obj[key] ELSE undefined
\* { ...a, ...b }
Spread(a, b) == [k \in DOMAIN a \cup DOMAIN b |-> IF k \in DOMAIN b THEN b[k] ELSE a[k]]

(***************************************************************************)
(* Default state of the two stores and of the parts a specification does   *)
(* not use.                                                                *)
(***************************************************************************)
defaultFilters == [method |-> ""]
defaultSort == [field |-> "requestTime", direction |-> "desc"]

FilterStoreInit ==
    /\ filters = defaultFilters
    /\ sort = defaultSort
    /\ page = 0
    /\ pageSize = 50
    /\ refreshTick = 0

CacheIdle ==
    /\ now = 0
    /\ fileCache = EmptyMap
    /\ entryCache = EmptyMap
    /\ clientCacheS3 = {}
    /\ clientCacheDb = {}
    /\ loads = <<>>
    /\ written = EmptyMap
    /\ edits = <<>>

MergeIdle ==
    /\ phase = "idle"
    /\ calls = EmptyMap
    /\ dispatched = EmptyMap
    /\ merged = [content |-> <<>>, totalElements |-> 0, totalPages |-> 0,
                 page |-> 0, size |-> 0, perSourceErrors |-> <<>>]

QueryIdle ==
    /\ queryCache = EmptyMap
    /\ inFlight = EmptyMap
    /\ lastDefined = <<>>
    /\ fetches = 0
    /\ staleArrived = FALSE

LoadIdle ==
    /\ remote = <<>>
    /\ reload = [pc |-> "idle"]
    /\ requests = {}

EvalIdle ==
    /\ input = <<>>
    /\ output = <<>>

UiIdle ==
    /\ autoRefreshInterval = 0
    /\ lastOp = [name |-> "none", n |-> 0]
    /\ nextId = 0
    /\ exported = <<>>
    /\ importData = <<>>

RestIdle == LoadIdle /\ EvalIdle /\ UiIdle

(***************************************************************************)
(* Sources.  url/anonKey stand for the connection credentials (url and     *)
(* anonKey of the supabase kinds, baseUrl and apiKey of the file kind);    *)
(* dir stands for the remaining configuration (bucket, keyPrefix,          *)
(* directory, tableName, format, maxFiles).                                *)
(***************************************************************************)
Urls == {"u1", "u2"}
AnonKeys == {"k1", "k2"}
Dirs == {"d1", "d2"}

Source(id, type, name, color) ==
    [id |-> id, type |-> type, name |-> name, enabled |-> TRUE, color |-> color,
     url |-> "u1", anonKey |-> "k1", dir |-> "d1"]

SourceIndex(id) == CHOOSE i \in 1..Len(sources) : sources[i].id = id
SourceById(id) == sources[SourceIndex(id)]
SourceIds == {sources[i].id : i \in 1..Len(sources)}

Config(src) == <<src.url, src.anonKey, src.dir>>

ClientKey(src) == <<src.url, src.anonKey>>

(***************************************************************************)
(* SpecCache: batch-file retrieval and cache.                              *)
(*                                                                         *)
(* A load is one fetchPage call on a file-backed source.  It records the   *)
(* source object and the tick it was called with, where it stands          *)
(* (listing, downloading, done, failed), whether it was served from the    *)
(* cache, how many listing requests it issued and the collection it        *)
(* returned.  cachedTick/cachedAge are history: tick and age of the        *)
(* source's slot when the call was made (-1: no slot).                     *)
(***************************************************************************)
CACHE_TTL_MS == 30000
ClockStep == CACHE_TTL_MS \div 2

FileBacked == {"file", "supabase-s3"}

NoEntries == [cfg |-> <<>>, load |-> 0, empty |-> TRUE]
\* the collection a reload with the configuration cfg produces
Listed(cfg, i) == [cfg |-> cfg, load |-> i, empty |-> FALSE]

CacheSources ==
    << Source("f", "file", "Files", "c1"),
       Source("s", "supabase-s3", "Bucket", "c2"),
       Source("d", "supabase", "Db", "c3") >>

InitCache ==
    /\ sources = CacheSources
    /\ selectedSourceIds = <<"f", "s", "d">>
    /\ FilterStoreInit
    /\ CacheIdle
    /\ MergeIdle
    /\ QueryIdle
    /\ RestIdle

NewLoad(src, tick, hit, entries) ==
    [id |-> src.id, type |-> src.type, tick |-> tick, source |-> Config(src),
     pc |-> IF hit THEN "done" ELSE "listing",
     hit |-> hit,
     listed |-> IF hit THEN 0 ELSE 1,
     entries |-> entries,
     cachedTick |-> IF src.id \in DOMAIN written THEN written[src.id].tick ELSE -1,
     cachedAge |-> IF src.id \in DOMAIN written THEN now - written[src.id].at ELSE -1]

\* loadAllEntries: the cache test
FileCacheHit(src, tick) ==
    /\ src.id \in DOMAIN fileCache
    /\ fileCache[src.id].tick = tick
    /\ now - fileCache[src.id].fetchedAt < CACHE_TTL_MS

\* loadS3Entries: the cache test
S3CacheHit(src) == src.id \in DOMAIN entryCache

\* fetchFromSource -> fetchFileApiLogs -> loadAllEntries, up to its first await
fetchFileApiLogs(id) ==
    /\ Len(loads) < MaxLoads
    /\ id \in SourceIds
    /\ SourceById(id).type = "file"
    /\ LET src == SourceById(id)
           hit == FileCacheHit(src, refreshTick)
       IN loads' = Append(loads, NewLoad(src, refreshTick, hit,
                            IF hit THEN fileCache[id].entries ELSE NoEntries))
    /\ UNCHANGED <<now, fileCache, entryCache, clientCacheS3, clientCacheDb, written, edits>>
    /\ UNCHANGED <<storeVars, filterVars, mergeVars, queryVars, restVars>>

\* fetchFromSource -> fetchSupabaseS3Logs -> loadS3Entries, up to its first await
fetchSupabaseS3Logs(id) ==
    /\ Len(loads) < MaxLoads
    /\ id \in SourceIds
    /\ SourceById(id).type = "supabase-s3"
    /\ LET src == SourceById(id)
           hit == S3CacheHit(src)
       IN /\ loads' = Append(loads, NewLoad(src, refreshTick, hit,
                               IF hit THEN entryCache[id] ELSE NoEntries))
          /\ clientCacheS3' = IF hit THEN clientCacheS3
                              ELSE clientCacheS3 \cup {ClientKey(src)}
    /\ UNCHANGED <<now, fileCache, entryCache, clientCacheDb, written, edits>>
    /\ UNCHANGED <<storeVars, filterVars, mergeVars, queryVars, restVars>>

\* fetchSupabaseLogs: getClient, then the query
fetchSupabaseLogs(id) ==
    /\ id \in SourceIds
    /\ SourceById(id).type = "supabase"
    /\ ClientKey(SourceById(id)) \notin clientCacheDb
    /\ clientCacheDb' = clientCacheDb \cup {ClientKey(SourceById(id))}
    /\ UNCHANGED <<now, fileCache, entryCache, clientCacheS3, loads, written, edits>>
    /\ UNCHANGED <<storeVars, filterVars, mergeVars, queryVars, restVars>>

\* the listing answers: the downloads are issued
ListResolve(i) ==
    /\ i \in 1..Len(loads)
    /\ loads[i].pc = "listing"
    /\ loads' = [loads EXCEPT ![i].pc = "downloading"]
    /\ UNCHANGED <<now, fileCache, entryCache, clientCacheS3, clientCacheDb, written, edits>>
    /\ UNCHANGED <<storeVars, filterVars, mergeVars, queryVars, restVars>>

\* loadS3Entries: the listing answers with no item: [] is returned, nothing is cached
ListEmpty(i) ==
    /\ i \in 1..Len(loads)
    /\ loads[i].pc = "listing"
    /\ loads[i].type = "supabase-s3"
    /\ loads' = [loads EXCEPT ![i].pc = "done"]
    /\ UNCHANGED <<now, fileCache, entryCache, clientCacheS3, clientCacheDb, written, edits>>
    /\ UNCHANGED <<storeVars, filterVars, mergeVars, queryVars, restVars>>

\* the listing fails: the call rejects
ListReject(i) ==
    /\ i \in 1..Len(loads)
    /\ loads[i].pc = "listing"
    /\ loads' = [loads EXCEPT ![i].pc = "failed"]
    /\ UNCHANGED <<now, fileCache, entryCache, clientCacheS3, clientCacheDb, written, edits>>
    /\ UNCHANGED <<storeVars, filterVars, mergeVars, queryVars, restVars>>

\* a reload that leaves a slot it finds alone: the first write wins
DownloadsSettledFirstWins(i) ==
    /\ i \in 1..Len(loads)
    /\ loads[i].pc = "downloading"
    /\ LET l == loads[i]
           entries == Listed(l.source, i)
       IN /\ loads' = [loads EXCEPT ![i].pc = "done", ![i].entries = entries]
          /\ fileCache' = IF l.type = "file" /\ l.id \notin DOMAIN fileCache
                          THEN MapSet(fileCache, l.id,
                                   [entries |-> entries, fetchedAt |-> now, tick |-> l.tick])
                          ELSE fileCache
          /\ entryCache' = IF l.type = "file" THEN entryCache
                           ELSE MapSet(entryCache, l.id, entries)
          /\ written' = MapSet(written, l.id, [at |-> now, tick |-> l.tick])
    /\ UNCHANGED <<now, clientCacheS3, clientCacheDb, edits>>
    /\ UNCHANGED <<storeVars, filterVars, mergeVars, queryVars, restVars>>

\* loadAllEntries after Promise.allSettled: parse, sort, fileCache.set, return
\* loadS3Entries after Promise.allSettled: sort, entryCache.set, return
DownloadsSettled(i) ==
    /\ i \in 1..Len(loads)
    /\ loads[i].pc = "downloading"
    /\ LET l == loads[i]
           entries == Listed(l.source, i)
       IN /\ loads' = [loads EXCEPT ![i].pc = "done", ![i].entries = entries]
          /\ IF l.type = "file"
             THEN /\ fileCache' = MapSet(fileCache, l.id,
                        [entries |-> entries, fetchedAt |-> now, tick |-> l.tick])
                  /\ UNCHANGED entryCache
             ELSE /\ entryCache' = MapSet(entryCache, l.id, entries)
                  /\ UNCHANGED fileCache
          /\ written' = MapSet(written, l.id, [at |-> now, tick |-> l.tick])
    /\ UNCHANGED <<now, clientCacheS3, clientCacheDb, edits>>
    /\ UNCHANGED <<storeVars, filterVars, mergeVars, queryVars, restVars>>

\* time passes
Advance ==
    /\ now < MaxSteps * ClockStep
    /\ now' = now + ClockStep
    /\ UNCHANGED <<fileCache, entryCache, clientCacheS3, clientCacheDb, loads, written, edits>>
    /\ UNCHANGED <<storeVars, filterVars, mergeVars, queryVars, restVars>>

\* filterStore.triggerRefresh
triggerRefresh ==
    /\ refreshTick' = refreshTick + 1
    /\ UNCHANGED <<filters, sort, page, pageSize>>

\* the user presses refresh
CacheRefresh ==
    /\ refreshTick < MaxTick
    /\ triggerRefresh
    /\ UNCHANGED <<storeVars, cacheVars, mergeVars, queryVars, restVars>>

\* sourceStore.updateSource(id, updates)
updateSource(id, updates) ==
    [i \in 1..Len(sources) |->
        IF sources[i].id = id THEN Spread(sources[i], updates) ELSE sources[i]]

\* SourceForm.buildSource: the form's fields without id and color
buildSource(type, name, url, anonKey, dir) ==
    [name |-> name, enabled |-> TRUE, type |-> type,
     url |-> url,
     anonKey |-> IF type \in {"api", "file"} /\ anonKey = "" THEN undefined ELSE anonKey,
     dir |-> dir]

\* SourceForm.handleSubmit, the edit branch: the invalidations of the built
\* source's kind, then updateSource(existing.id, src)
SubmitEdit(existing, src) ==
    /\ clientCacheDb' = IF src.type = "supabase"
                        THEN clientCacheDb \ {ClientKey(src)} ELSE clientCacheDb
    /\ clientCacheS3' = IF src.type = "supabase-s3"
                        THEN clientCacheS3 \ {ClientKey(src)} ELSE clientCacheS3
    /\ entryCache' = IF src.type = "supabase-s3"
                     THEN MapDelete(entryCache, existing.id) ELSE entryCache
    /\ fileCache' = IF src.type = "file"
                    THEN MapDelete(fileCache, existing.id) ELSE fileCache
    /\ written' = IF src.type \in FileBacked
                  THEN MapDelete(written, existing.id) ELSE written
    /\ sources' = updateSource(existing.id, src)

\* SourceForm.handleSubmit on an existing source
handleSubmit(id, url, anonKey, dir) ==
    /\ Len(edits) < MaxEdits
    /\ id \in SourceIds
    /\ LET existing == SourceById(id)
           src == buildSource(existing.type, existing.name, url, anonKey, dir)
       IN /\ SubmitEdit(existing, src)
          /\ edits' = Append(edits, [id |-> id, type |-> existing.type,
                                     old |-> existing, new |-> src])
    /\ UNCHANGED <<now, loads, selectedSourceIds>>
    /\ UNCHANGED <<filterVars, mergeVars, queryVars, restVars>>

NextCache ==
    \/ \E id \in {"f", "s", "d"} :
          \/ fetchFileApiLogs(id)
          \/ fetchSupabaseS3Logs(id)
          \/ fetchSupabaseLogs(id)
          \/ \E u \in Urls, k \in AnonKeys, d \in Dirs : handleSubmit(id, u, k, d)
    \/ \E i \in 1..MaxLoads :
          \/ ListResolve(i)
          \/ ListEmpty(i)
          \/ ListReject(i)
          \/ DownloadsSettled(i)
    \/ Advance
    \/ CacheRefresh

SpecCache == InitCache /\ [][NextCache]_vars


(***************************************************************************)
(* Claims on the cache (SpecCache).                                        *)
(***************************************************************************)

\* C1: for every file-backed source (object-storage and remote-file-listing)
\* a fetchPage call is served from the cache, issuing no listing request, if
\* and only if the source's slot exists, was written with the requested tick
\* and is younger than 30 s; in every other case it lists (a full reload).
C1_HitIffTickAndTtl ==
    \A i \in 1..Len(loads) :
        LET l == loads[i]
            valid == l.cachedTick = l.tick /\ l.cachedAge >= 0 /\ l.cachedAge < CACHE_TTL_MS
        IN /\ l.hit <=> valid
           /\ l.listed = IF valid THEN 0 ELSE 1

\* C2: once the slot of a file-backed source was written with another tick
\* than the requested one (a manual refresh advanced the tick), the next
\* fetchPage issues exactly one listing request even inside the TTL; with
\* the same tick inside the TTL it issues none.
C2_RefreshRelists ==
    \A i \in 1..Len(loads) :
        LET l == loads[i] IN
        /\ (l.cachedTick >= 0 /\ l.cachedTick # l.tick) => l.listed = 1
        /\ (l.cachedTick = l.tick /\ l.cachedAge < CACHE_TTL_MS) => l.listed = 0

\* C3: the step that saves a configuration edit of a source leaves no entry
\* cache slot under the source's id and no connection client under the
\* source's pre-edit credentials, whichever fields the edit changes.
C3_EditEvictsOldConfig ==
    [][Len(edits') > Len(edits) =>
         LET e == edits'[Len(edits')] IN
         /\ e.type = "file" => e.id \notin DOMAIN fileCache'
         /\ e.type = "supabase-s3" =>
               /\ e.id \notin DOMAIN entryCache'
               /\ ClientKey(e.old) \notin clientCacheS3'
         /\ e.type = "supabase" => ClientKey(e.old) \notin clientCacheDb'
      ]_vars

\* C4: a fetchPage of a file-backed source returns entries that were listed
\* with the configuration the source had when fetchPage was called, also
\* when an edit is saved while a reload of the source is in flight.
C4_NoStaleConfigServed ==
    \A i \in 1..Len(loads) :
        (loads[i].pc = "done" /\ ~loads[i].entries.empty)
            => loads[i].entries.cfg = loads[i].source


\* the reloads of the remote-file-listing adapter that complete in the step
Completing ==
    {i \in 1..Len(loads) :
        loads[i].type = "file" /\ loads[i].pc = "downloading" /\ loads'[i].pc = "done"}

\* the slot of the source id, <<>> without one
SlotOf(cache, id) == IF id \in DOMAIN cache THEN <<cache[id]>> ELSE <<>>

SortFields == {"requestTime", "appName", "method", "responseStatus", "url", "processingTimeMs"}
Directions == {"asc", "desc"}
Extras == {0, 1}                        \* entries of a source beyond its page
Reasons == {"timeout", "HTTP 500"}      \* messages of a rejected fetchPage

FieldValues(field) == IF field = "appName" THEN 0..MaxVal ELSE 1..MaxVal

Entry(id, i, field, v) ==
    [ [id |-> <<id, i>>, requestTime |-> 1, appName |-> 1, method |-> 1,
       responseStatus |-> 1, url |-> 1, processingTimeMs |-> 1] EXCEPT ![field] = v ]

Pages(field) == UNION {[1..n -> FieldValues(field)] : n \in 0..MaxPage}

MergeSources(ea, eb) ==
    << [Source("a", "api", "Alpha", "c1") EXCEPT !.enabled = ea],
       [Source("b", "supabase", "Beta", "c2") EXCEPT !.enabled = eb] >>

Selections == {<<>>, <<"a">>, <<"b">>, <<"a", "b">>}

InitMerge ==
    /\ \E ea \in BOOLEAN, eb \in BOOLEAN : sources = MergeSources(ea, eb)
    /\ selectedSourceIds \in Selections
    /\ filters = defaultFilters
    /\ sort \in [field : SortFields, direction : Directions]
    /\ page = 0
    /\ pageSize = 50
    /\ refreshTick = 0
    /\ CacheIdle
    /\ phase = "idle"
    /\ calls = EmptyMap
    /\ dispatched = [id \in {"a", "b"} |-> 0]
    /\ merged = [content |-> <<>>, totalElements |-> 0, totalPages |-> 0,
                 page |-> 0, size |-> 0, perSourceErrors |-> <<>>]
    /\ QueryIdle
    /\ RestIdle

\* a filter that forgets the enabled flag
ActiveSourcesIgnoringEnabled ==
    LET Active(src) == src.id \in SeqToSet(selectedSourceIds)
    IN SelectSeq(sources, Active)

\* a filter that forgets the selection
ActiveSourcesIgnoringSelection == SelectSeq(sources, LAMBDA src : src.enabled)

\* useMergedLogs: allSources.filter(src => src.enabled && selectedSourceIds.includes(src.id))
ActiveSources ==
    LET Active(src) == src.enabled /\ src.id \in SeqToSet(selectedSourceIds)
    IN SelectSeq(sources, Active)

CeilDiv(a, b) == (a + b - 1) \div b

EmptyPage ==
    [content |-> <<>>, totalElements |-> 0, totalPages |-> 0,
     page |-> page, size |-> pageSize, perSourceErrors |-> <<>>]

\* queryFn with no active source: the empty page, no adapter call
QueryFnEmpty ==
    /\ phase = "idle"
    /\ Len(ActiveSources) = 0
    /\ merged' = EmptyPage
    /\ phase' = "done"
    /\ UNCHANGED <<calls, dispatched>>
    /\ UNCHANGED <<storeVars, filterVars, cacheVars, queryVars, restVars>>

\* queryFn: sources.map(src => fetchFromSource(src, ...)), every call issued
\* in the same synchronous step, then await Promise.allSettled
QueryFnDispatch ==
    /\ phase = "idle"
    /\ Len(ActiveSources) > 0
    /\ LET ids == {ActiveSources[i].id : i \in 1..Len(ActiveSources)}
       IN /\ calls' = [id \in ids |-> [status |-> "pending", content |-> <<>>,
                                       totalElements |-> 0, reason |-> ""]]
          /\ dispatched' = [id \in DOMAIN dispatched |->
                               IF id \in ids THEN dispatched[id] + 1 ELSE dispatched[id]]
    /\ phase' = "waiting"
    /\ UNCHANGED merged
    /\ UNCHANGED <<storeVars, filterVars, cacheVars, queryVars, restVars>>

\* a fetchPage resolves with a page
Fulfill(id, vals, extra) ==
    /\ phase = "waiting"
    /\ id \in DOMAIN calls
    /\ calls[id].status = "pending"
    /\ calls' = [calls EXCEPT ![id] =
                    [status |-> "fulfilled",
                     content |-> [i \in 1..Len(vals) |-> Entry(id, i, sort.field, vals[i])],
                     totalElements |-> Len(vals) + extra,
                     reason |-> ""]]
    /\ UNCHANGED <<phase, dispatched, merged>>
    /\ UNCHANGED <<storeVars, filterVars, cacheVars, queryVars, restVars>>

\* a fetchPage rejects
Reject(id, reason) ==
    /\ phase = "waiting"
    /\ id \in DOMAIN calls
    /\ calls[id].status = "pending"
    /\ calls' = [calls EXCEPT ![id].status = "rejected", ![id].reason = reason]
    /\ UNCHANGED <<phase, dispatched, merged>>
    /\ UNCHANGED <<storeVars, filterVars, cacheVars, queryVars, restVars>>

\* Promise.all in the place of Promise.allSettled: resumes on the first rejection
SettledAsPromiseAll(cs) ==
    \/ \E id \in DOMAIN cs : cs[id].status = "rejected"
    \/ \A id \in DOMAIN cs : cs[id].status = "fulfilled"

\* Promise.allSettled: resumes when every call has resolved or rejected
AllSettled(cs) == \A id \in DOMAIN cs : cs[id].status # "pending"

\* tagging with the first source of the store instead of the result's own source
TagWithFirstSource(e, src) ==
    e @@ [sourceId |-> sources[1].id, sourceName |-> sources[1].name,
          sourceColor |-> sources[1].color]

\* the provenance fields of useMergedLogs: {...e, _sourceId, _sourceName, _sourceColor}
Tag(e, src) ==
    e @@ [sourceId |-> src.id, sourceName |-> src.name, sourceColor |-> src.color]

\* an error record that puts the id where the name belongs
ErrorRecordWithoutName(src, reason) ==
    [sourceId |-> src.id, sourceName |-> src.id, error |-> reason]

\* the record pushed for a rejected source
ErrorRecord(src, reason) ==
    [sourceId |-> src.id, sourceName |-> src.name, error |-> reason]

\* results.forEach over the first n sources of the query
RECURSIVE Collect(_, _, _)
Collect(srcs, cs, n) ==
    IF n = 0
    THEN [combinedEntries |-> <<>>, totalElements |-> 0, perSourceErrors |-> <<>>]
    ELSE LET acc == Collect(srcs, cs, n - 1)
             src == srcs[n]
             result == cs[src.id]
         IN IF result.status = "fulfilled"
            THEN [acc EXCEPT
                    !.combinedEntries = @ \o [i \in 1..Len(result.content) |->
                                                 Tag(result.content[i], src)],
                    !.totalElements = @ + result.totalElements]
            ELSE [acc EXCEPT
                    !.perSourceErrors = Append(@, ErrorRecord(src, result.reason))]

\* JavaScript's <: null against a (non-numeric) string is false both ways
JsLess(field, a, b) ==
    IF field = "appName" THEN a # 0 /\ b # 0 /\ a < b ELSE a < b

\* the comparator of combinedEntries.sort
Compare(srt, a, b) ==
    IF JsLess(srt.field, a[srt.field], b[srt.field])
    THEN (IF srt.direction = "asc" THEN -1 ELSE 1)
    ELSE IF JsLess(srt.field, b[srt.field], a[srt.field])
         THEN (IF srt.direction = "asc" THEN 1 ELSE -1)
         ELSE 0

\* x inserted into the sorted s: behind the last element it does not precede
RECURSIVE Insert(_, _, _)
Insert(s, x, srt) ==
    IF Len(s) = 0 THEN <<x>>
    ELSE IF Compare(srt, x, s[Len(s)]) < 0
         THEN Append(Insert(SubSeq(s, 1, Len(s) - 1), x, srt), s[Len(s)])
         ELSE Append(s, x)

\* Array.prototype.sort with the comparator (stable; insertion on short arrays)
RECURSIVE SortEntries(_, _)
SortEntries(s, srt) ==
    IF Len(s) = 0 THEN <<>>
    ELSE Insert(SortEntries(SubSeq(s, 1, Len(s) - 1), srt), s[Len(s)], srt)

\* queryFn after Promise.allSettled: tag, concatenate, sum, re-sort, return
MergeResults ==
    /\ phase = "waiting"
    /\ AllSettled(calls)
    /\ LET acc == Collect(ActiveSources, calls, Len(ActiveSources))
       IN merged' = [content |-> SortEntries(acc.combinedEntries, sort),
                     totalElements |-> acc.totalElements,
                     totalPages |-> CeilDiv(acc.totalElements, pageSize),
                     page |-> page,
                     size |-> pageSize,
                     perSourceErrors |-> acc.perSourceErrors]
    /\ phase' = "done"
    /\ UNCHANGED <<calls, dispatched>>
    /\ UNCHANGED <<storeVars, filterVars, cacheVars, queryVars, restVars>>

NextMerge ==
    \/ QueryFnEmpty
    \/ QueryFnDispatch
    \/ \E id \in {"a", "b"} :
          \/ \E vals \in Pages(sort.field), extra \in Extras : Fulfill(id, vals, extra)
          \/ \E reason \in Reasons : Reject(id, reason)
    \/ MergeResults

SpecMerge == InitMerge /\ [][NextMerge]_vars


(***************************************************************************)
(* Claims on the merge orchestrator (SpecMerge).                           *)
(***************************************************************************)
\* the ids of the sources that are enabled and selected, read off the store
EnabledSelected ==
    {sources[i].id : i \in {j \in 1..Len(sources) :
        sources[j].enabled /\ \E k \in 1..Len(selectedSourceIds) :
                                  selectedSourceIds[k] = sources[j].id}}

FulfilledIds == {id \in DOMAIN calls : calls[id].status = "fulfilled"}
RejectedIds == {id \in DOMAIN calls : calls[id].status = "rejected"}

RECURSIVE SumTotals(_)
SumTotals(ids) ==
    IF ids = {} THEN 0
    ELSE LET id == CHOOSE x \in ids : TRUE
         IN calls[id].totalElements + SumTotals(ids \ {id})

RECURSIVE SumLengths(_)
SumLengths(ids) ==
    IF ids = {} THEN 0
    ELSE LET id == CHOOSE x \in ids : TRUE
         IN Len(calls[id].content) + SumLengths(ids \ {id})

\* C5: as soon as the merged query has started, exactly one fetchPage has
\* been dispatched to every enabled-and-selected source and none to any
\* other; the merged result exists only when every call has settled, no call
\* was dispatched a second time, and every entry a source returned is in the
\* merged content whatever the other sources did.
C5_DispatchOnceWaitForAll ==
    /\ phase # "idle" =>
          \A id \in DOMAIN dispatched :
              dispatched[id] = IF id \in EnabledSelected THEN 1 ELSE 0
    /\ phase = "done" =>
          /\ \A id \in DOMAIN calls : calls[id].status # "pending"
          /\ \A id \in FulfilledIds : \A i \in 1..Len(calls[id].content) :
                \E j \in 1..Len(merged.content) :
                    merged.content[j].id = calls[id].content[i].id

C5_Witness ==
    /\ phase = "done"
    /\ RejectedIds # {}
    /\ \E id \in FulfilledIds : Len(calls[id].content) = MaxPage
    /\ Len(merged.content) = MaxPage

\* C6: the merged result holds exactly one error record per rejected source,
\* with that source's id, name and message, and no other record; the entries
\* of the sources that succeeded are all in the content.
C6_PerSourceErrors ==
    phase = "done" =>
        LET errs == merged.perSourceErrors IN
        /\ Len(errs) = Cardinality(RejectedIds)
        /\ \A id \in RejectedIds :
              /\ Cardinality({i \in 1..Len(errs) : errs[i].sourceId = id}) = 1
              /\ \A i \in 1..Len(errs) :
                    errs[i].sourceId = id =>
                        errs[i] = [sourceId |-> id,
                                   sourceName |-> SourceById(id).name,
                                   error |-> calls[id].reason]
        /\ Len(merged.content) = SumLengths(FulfilledIds)

C6_Witness ==
    /\ phase = "done"
    /\ Cardinality(DOMAIN calls) = 2
    /\ Cardinality(RejectedIds) = 1
    /\ Len(merged.content) = MaxPage
    /\ Len(merged.perSourceErrors) = 1
    /\ merged.perSourceErrors[1].error = "timeout"

\* C7: every merged entry carries the id, name and color of the source that
\* returned it, and totalElements is the sum of the totals of the sources
\* that succeeded.
C7_ProvenanceAndTotal ==
    phase = "done" =>
        /\ \A j \in 1..Len(merged.content) :
              LET e == merged.content[j]
                  src == SourceById(e.id[1])
              IN /\ e.sourceId = src.id
                 /\ e.sourceName = src.name
                 /\ e.sourceColor = src.color
        /\ merged.totalElements = SumTotals(FulfilledIds)

C7_Witness ==
    /\ phase = "done"
    /\ Cardinality(FulfilledIds) = 2
    /\ \A id \in FulfilledIds : Len(calls[id].content) > 0
    /\ merged.totalElements > Len(merged.content)

\* C8: with no enabled-and-selected source the merged query returns the
\* empty page (no content, totals 0, no errors) and no adapter call is made.
C8_EmptySelection ==
    (phase # "idle" /\ EnabledSelected = {}) =>
        /\ phase = "done"
        /\ merged.content = <<>>
        /\ merged.totalElements = 0
        /\ merged.totalPages = 0
        /\ merged.perSourceErrors = <<>>
        /\ calls = EmptyMap
        /\ \A id \in DOMAIN dispatched : dispatched[id] = 0

C8_Witness ==
    /\ phase = "done"
    /\ EnabledSelected = {}
    /\ Len(selectedSourceIds) > 0

\* C9: the merged content is ordered by the sort field: every adjacent pair
\* is non-decreasing for 'asc' and non-increasing for 'desc', in the order of
\* the field's values with null placed either before or after every string.
NullFirstLeq(a, b) == a <= b
NullLastLeq(a, b) == IF b = 0 THEN TRUE ELSE IF a = 0 THEN FALSE ELSE a <= b

OrderedBy(Leq(_, _)) ==
    \A i \in 1..(Len(merged.content) - 1) :
        LET x == merged.content[i][sort.field]
            y == merged.content[i + 1][sort.field]
        IN IF sort.direction = "asc" THEN Leq(x, y) ELSE Leq(y, x)

C9_MergedContentOrdered ==
    phase = "done" => (OrderedBy(NullFirstLeq) \/ OrderedBy(NullLastLeq))


(***************************************************************************)
(* SpecQuery: the identity of the merged query.                            *)
(*                                                                         *)
(* useMergedLogs reads the filter store and the active sources and hands   *)
(* useQuery a queryKey and a queryFn closed over the same values.  The     *)
(* query cache keeps one result per key; a running queryFn is not          *)
(* cancelled when the observer moves to another key, and its result is     *)
(* written under the key it was started for.  With placeholderData:        *)
(* prev => prev the observer returns, while the current key has no data,   *)
(* the data of the last query it observed with data.                       *)
(***************************************************************************)
QuerySources == << Source("a", "api", "Alpha", "c1") >>
Methods == {"", "GET"}
PageIndexes == {0, 1}

InitQuery ==
    /\ sources = QuerySources
    /\ selectedSourceIds = <<"a">>
    /\ FilterStoreInit
    /\ CacheIdle
    /\ MergeIdle
    /\ queryCache = EmptyMap
    /\ inFlight = EmptyMap
    /\ lastDefined = <<>>
    /\ fetches = 0
    /\ staleArrived = FALSE
    /\ RestIdle

\* the values the queryFn closes over
QueryParams ==
    [sources |-> [i \in 1..Len(ActiveSources) |-> ActiveSources[i].id],
     filters |-> filters, sort |-> sort, page |-> page, pageSize |-> pageSize,
     refreshTick |-> refreshTick]

\* a queryKey that leaves out the page
QueryKeyWithoutPage ==
    << "logs", [i \in 1..Len(ActiveSources) |-> ActiveSources[i].id],
       filters, sort, pageSize, refreshTick >>

\* queryKey: ['logs', sources.map(s => s.id), filters, sort, page, pageSize, refreshTick]
QueryKey ==
    << "logs", [i \in 1..Len(ActiveSources) |-> ActiveSources[i].id],
       filters, sort, page, pageSize, refreshTick >>

\* what useQuery returns as data: the current key's data, else the placeholder
QueryData ==
    IF QueryKey \in DOMAIN queryCache THEN <<queryCache[QueryKey]>>
    ELSE IF lastDefined # <<>> THEN <<queryCache[lastDefined[1]]>>
    ELSE <<>>

\* the observer after a render: it subscribes to the query of the new key and
\* starts the queryFn unless that query is already fetching (staleTime 0)
Observe ==
    /\ fetches < MaxFetches \/ QueryKey' = QueryKey \/ QueryKey' \in DOMAIN inFlight
    /\ IF QueryKey' = QueryKey \/ QueryKey' \in DOMAIN inFlight
       THEN UNCHANGED <<inFlight, fetches>>
       ELSE /\ inFlight' = MapSet(inFlight, QueryKey', QueryParams')
            /\ fetches' = fetches + 1
    /\ lastDefined' = IF QueryKey' \in DOMAIN queryCache THEN <<QueryKey'>> ELSE lastDefined
    /\ UNCHANGED <<queryCache, staleArrived>>

\* filterStore.setFilters
setFilters(partial) ==
    /\ filters' = partial @@ filters
    /\ page' = 0
    /\ UNCHANGED <<sort, pageSize, refreshTick>>

\* filterStore.setPage
setPage(p) ==
    /\ page' = p
    /\ UNCHANGED <<filters, sort, pageSize, refreshTick>>

\* sourceStore.toggleSelectedSource
toggleSelectedSource(id) ==
    LET NotId(sid) == sid # id
    IN /\ selectedSourceIds' = IF id \in SeqToSet(selectedSourceIds)
                               THEN SelectSeq(selectedSourceIds, NotId)
                               ELSE Append(selectedSourceIds, id)
       /\ UNCHANGED sources

QuerySetFilters(m) ==
    /\ setFilters([method |-> m])
    /\ UNCHANGED <<storeVars, cacheVars, mergeVars, restVars>>
    /\ Observe

QuerySetPage(p) ==
    /\ setPage(p)
    /\ UNCHANGED <<storeVars, cacheVars, mergeVars, restVars>>
    /\ Observe

QueryRefresh ==
    /\ refreshTick < MaxTick
    /\ triggerRefresh
    /\ UNCHANGED <<storeVars, cacheVars, mergeVars, restVars>>
    /\ Observe

QueryToggleSource(id) ==
    /\ toggleSelectedSource(id)
    /\ UNCHANGED <<filterVars, cacheVars, mergeVars, restVars>>
    /\ Observe

\* refetchInterval, remount or window focus: the current query is fetched again
Refetch ==
    /\ fetches < MaxFetches
    /\ QueryKey \notin DOMAIN inFlight
    /\ inFlight' = MapSet(inFlight, QueryKey, QueryParams)
    /\ fetches' = fetches + 1
    /\ UNCHANGED <<queryCache, lastDefined, staleArrived>>
    /\ UNCHANGED <<storeVars, filterVars, cacheVars, mergeVars, restVars>>

\* a queryFn resolves: its result is written to the query it was started for
FetchSettle(k) ==
    /\ k \in DOMAIN inFlight
    /\ queryCache' = MapSet(queryCache, k, [params |-> inFlight[k]])
    /\ inFlight' = MapDelete(inFlight, k)
    /\ lastDefined' = IF k = QueryKey THEN <<k>> ELSE lastDefined
    /\ staleArrived' = (staleArrived \/ k # QueryKey)
    /\ UNCHANGED fetches
    /\ UNCHANGED <<storeVars, filterVars, cacheVars, mergeVars, restVars>>

NextQuery ==
    \/ \E m \in Methods : QuerySetFilters(m)
    \/ \E p \in PageIndexes : QuerySetPage(p)
    \/ QueryRefresh
    \/ QueryToggleSource("a")
    \/ Refetch
    \/ \E k \in DOMAIN inFlight : FetchSettle(k)

SpecQuery == InitQuery /\ [][NextQuery]_vars

(***************************************************************************)
(* Claims on the query identity (SpecQuery).                               *)
(***************************************************************************)

\* the query key made of a fetch's parameters
KeyOfParams(p) ==
    << "logs", p.sources, p.filters, p.sort, p.page, p.pageSize, p.refreshTick >>

\* C10 as claimed: whatever data the merged query shows was fetched with
\* exactly the current query parameters.
C10_ShownDataIsCurrent ==
    QueryData # <<>> => QueryData[1].params = QueryParams

\* C10 as amended: a result is stored only under the key of the parameters it
\* was fetched with, and once the current query has a result of its own the
\* data shown was fetched with exactly the current parameters (until then the
\* previous query's data is shown as placeholder).
C10_SettledDataIsCurrent ==
    /\ \A k \in DOMAIN queryCache : KeyOfParams(queryCache[k].params) = k
    /\ QueryKey \in DOMAIN queryCache =>
          (QueryData # <<>> /\ QueryData[1].params = QueryParams)

C10_Witness ==
    /\ staleArrived
    /\ QueryKey \in DOMAIN queryCache
    /\ Cardinality(DOMAIN queryCache) >= 2


(***************************************************************************)
(* SpecLoad: one call of an adapter, file by file.                         *)
(*                                                                         *)
(* remote is what the store lists under the prefix: objects in name        *)
(* descending order (the listing is requested with sortBy name desc; the   *)
(* /files endpoint returns its files).  An object is named by its rank k   *)
(* and its extension; the file k holds two entries.  reload is the         *)
(* running call: the source object it was given, the operation (logs or    *)
(* stats), where it stands, the files it downloads, the files whose        *)
(* download or parse failed (history) and the collection it returned.      *)
(***************************************************************************)
MaxObjects == 6         \* objects the store lists
MaxFilesSetting == 2    \* the largest configured maxFiles
MaxReloads == 2         \* adapter calls in one behaviour

DEFAULT_MAX_FILES == 5

LogExtensions == {"json", "jsonl", "ndjson", "csv"}

toLowerCase(ext) == IF ext = "CSV" THEN "csv" ELSE ext

\* the extension a log file of rank k is written with
LogExtOf(k) == <<"json", "jsonl", "ndjson", "CSV">>[(k % 4) + 1]

Object(k, isLog) == [name |-> k, ext |-> IF isLog THEN LogExtOf(k) ELSE "txt"]

\* the listings of n objects, name descending
Listings(n) ==
    {[i \in 1..n |-> Object(n + 1 - i, isLog[i])] : isLog \in [1..n -> BOOLEAN]}

\* the entries the parser yields for the file of rank k
FileEntries(k) ==
    << [id |-> <<k, 1>>, requestTime |-> k % 3],
       [id |-> <<k, 2>>, requestTime |-> (k + 1) % 3] >>

\* /\.(json|jsonl|ndjson|csv)$/i.test(item.name)
IsLogFile(item) == toLowerCase(item.ext) \in LogExtensions

Min(a, b) == IF a < b THEN a ELSE b

RECURSIVE Filter(_, _)
Filter(s, keep) ==
    IF s = <<>> THEN <<>>
    ELSE IF s[1] \in keep THEN <<s[1]>> \o Filter(Tail(s), keep)
         ELSE Filter(Tail(s), keep)

\* the slice without the filter on the extension
FirstFiles(items, maxFiles) ==
    SubSeq(items, 1, Min(Len(items), IF maxFiles = 0 THEN DEFAULT_MAX_FILES ELSE maxFiles))

\* items.filter(log file).slice(0, source.maxFiles || 5)
LogFiles(items, maxFiles) ==
    LET logs == Filter(items, {it \in SeqToSet(items) : IsLogFile(it)})
        n == IF maxFiles = 0 THEN DEFAULT_MAX_FILES ELSE maxFiles
    IN SubSeq(logs, 1, Min(Len(logs), n))

LoadSource(id, type, directory, maxFiles) ==
    [id |-> id, type |-> type, name |-> id, enabled |-> TRUE, color |-> "c1",
     url |-> "u1", anonKey |-> "k1", dir |-> "d1",
     directory |-> directory, maxFiles |-> maxFiles]

LoadSources ==
    {LoadSource("s", "supabase-s3", "", m) : m \in 0..MaxFilesSetting}
      \cup {LoadSource("f", "file", d, IF d = "" THEN 0 ELSE 1) : d \in {"", "logs/"}}
      \cup {LoadSource("r", "api", "", 0)}

InitLoad ==
    /\ \E src \in LoadSources : sources = <<src>>
    /\ selectedSourceIds = <<sources[1].id>>
    /\ FilterStoreInit
    /\ CacheIdle
    /\ MergeIdle
    /\ QueryIdle
    /\ \E n \in 0..MaxObjects : remote \in Listings(n)
    /\ reload = [pc |-> "idle", n |-> 0]
    /\ requests = {}
    /\ EvalIdle
    /\ UiIdle

\* entries.sort((a, b) => (a.requestTime < b.requestTime ? 1 : -1))   (loadS3Entries)
\* entries.sort((a, b) => b.requestTime.localeCompare(a.requestTime)) (loadAllEntries)
CompareLoaded(type, a, b) ==
    IF type = "supabase-s3"
    THEN IF a.requestTime < b.requestTime THEN 1 ELSE -1
    ELSE IF b.requestTime < a.requestTime THEN -1
         ELSE IF b.requestTime > a.requestTime THEN 1 ELSE 0

\* Array.prototype.sort: x goes before the first element it compares below
RECURSIVE InsertLoaded(_, _, _)
InsertLoaded(s, x, type) ==
    IF s = <<>> THEN <<x>>
    ELSE IF CompareLoaded(type, x, s[1]) < 0 THEN <<x>> \o s
         ELSE <<s[1]>> \o InsertLoaded(Tail(s), x, type)

RECURSIVE SortLoaded(_, _)
SortLoaded(s, type) ==
    IF s = <<>> THEN <<>>
    ELSE InsertLoaded(SortLoaded(SubSeq(s, 1, Len(s) - 1), type), s[Len(s)], type)

\* Promise.all in place of Promise.allSettled: one failed file rejects the call
AfterDownloadsAsPromiseAll(failed) == IF failed = {} THEN "done" ELSE "failed"

\* await Promise.allSettled(...): the call goes on whatever failed
AfterDownloads(failed) == "done"

\* results.forEach(r => r.status === 'fulfilled' && entries.push(...r.value))
RECURSIVE FulfilledEntries(_, _)
FulfilledEntries(files, failed) ==
    IF files = <<>> THEN <<>>
    ELSE (IF files[1].name \in failed THEN <<>> ELSE FileEntries(files[1].name))
            \o FulfilledEntries(Tail(files), failed)

NewCall(src, op, pc, cached, entries) ==
    [pc |-> pc, n |-> reload.n + 1, id |-> src.id, type |-> src.type, op |-> op,
     source |-> src, tick |-> refreshTick, cached |-> cached, listFailed |-> FALSE,
     files |-> <<>>, failed |-> {}, entries |-> entries]

\* the switch on source.type of fetchFromSource and of useSourceStats, and the
\* adapter it calls, up to the adapter's first await
Dispatch(op) ==
    /\ reload.pc \in {"idle", "done", "failed"}
    /\ reload.n < MaxReloads
    /\ LET src == sources[1] IN
       CASE src.type = "supabase-s3" ->
              IF S3CacheHit(src)
              THEN /\ reload' = NewCall(src, op, "done", TRUE, entryCache[src.id])
                   /\ requests' = {}
                   /\ UNCHANGED clientCacheS3
              ELSE /\ reload' = NewCall(src, op, "listing", FALSE, <<>>)
                   /\ requests' = {"list"}
                   /\ clientCacheS3' = clientCacheS3 \cup {ClientKey(src)}
         [] src.type = "file" ->
              /\ IF FileCacheHit(src, refreshTick)
                 THEN /\ reload' = NewCall(src, op, "done", TRUE, fileCache[src.id].entries)
                      /\ requests' = {}
                 ELSE /\ reload' = NewCall(src, op, "listing", FALSE, <<>>)
                      /\ requests' = {"list"}
              /\ UNCHANGED clientCacheS3
         [] src.type = "api" ->
              /\ reload' = NewCall(src, op, "fetching", FALSE, <<>>)
              /\ requests' = {op}
              /\ UNCHANGED clientCacheS3
    /\ UNCHANGED <<now, fileCache, entryCache, clientCacheDb, loads, written, edits, remote>>
    /\ UNCHANGED <<storeVars, filterVars, mergeVars, queryVars, evalVars, uiVars>>

\* useMergedLogs queryFn -> fetchFromSource(source, ...)
fetchFromSource == Dispatch("logs")

\* useSourceStats queryFn
useSourceStats == Dispatch("stats")

\* the listing answers.  loadS3Entries: no item returns [] and caches nothing;
\* otherwise the log files are selected and their downloads issued.
\* loadAllEntries: every listed file is downloaded.
ListingFulfilled ==
    /\ reload.pc = "listing"
    /\ IF reload.type = "supabase-s3" /\ remote = <<>>
       THEN /\ reload' = [reload EXCEPT !.pc = "done", !.entries = <<>>]
            /\ UNCHANGED requests
       ELSE LET files == IF reload.type = "supabase-s3"
                         THEN LogFiles(remote, reload.source.maxFiles)
                         ELSE remote
            IN /\ reload' = [reload EXCEPT !.pc = "downloading", !.files = files]
               /\ requests' = IF files = <<>> THEN requests ELSE requests \cup {"download"}
    /\ UNCHANGED <<cacheVars, remote>>
    /\ UNCHANGED <<storeVars, filterVars, mergeVars, queryVars, evalVars, uiVars>>

\* the listing fails: `throw new Error(...)`, the call rejects
ListingRejected ==
    /\ reload.pc = "listing"
    /\ reload' = [reload EXCEPT !.pc = "failed", !.listFailed = TRUE]
    /\ UNCHANGED <<cacheVars, remote, requests>>
    /\ UNCHANGED <<storeVars, filterVars, mergeVars, queryVars, evalVars, uiVars>>

\* every download (and parse) has settled, those of `failed` by a rejection:
\* collect, sort, cache, return
DownloadsAllSettled(failed) ==
    /\ reload.pc = "downloading"
    /\ failed \subseteq {reload.files[i].name : i \in 1..Len(reload.files)}
    /\ LET pc == AfterDownloads(failed)
           entries == SortLoaded(FulfilledEntries(reload.files, failed), reload.type)
       IN IF pc = "done"
          THEN /\ reload' = [reload EXCEPT !.pc = "done", !.failed = failed,
                                           !.entries = entries]
               /\ IF reload.type = "file"
                  THEN /\ fileCache' = MapSet(fileCache, reload.id,
                              [entries |-> entries, fetchedAt |-> now, tick |-> reload.tick])
                       /\ UNCHANGED entryCache
                  ELSE /\ entryCache' = MapSet(entryCache, reload.id, entries)
                       /\ UNCHANGED fileCache
          ELSE /\ reload' = [reload EXCEPT !.pc = "failed", !.failed = failed]
               /\ UNCHANGED <<fileCache, entryCache>>
    /\ UNCHANGED <<now, clientCacheS3, clientCacheDb, loads, written, edits, remote, requests>>
    /\ UNCHANGED <<storeVars, filterVars, mergeVars, queryVars, evalVars, uiVars>>

\* apiFetch: the REST endpoint answers (res.ok) or not
ApiFetchSettled(ok) ==
    /\ reload.pc = "fetching"
    /\ reload' = [reload EXCEPT !.pc = IF ok THEN "done" ELSE "failed"]
    /\ UNCHANGED <<cacheVars, remote, requests>>
    /\ UNCHANGED <<storeVars, filterVars, mergeVars, queryVars, evalVars, uiVars>>

NextLoad ==
    \/ fetchFromSource
    \/ useSourceStats
    \/ ListingFulfilled
    \/ ListingRejected
    \/ \E failed \in SUBSET (1..MaxObjects) : DownloadsAllSettled(failed)
    \/ \E ok \in BOOLEAN : ApiFetchSettled(ok)

SpecLoad == InitLoad /\ [][NextLoad]_vars


(***************************************************************************)
(* Claims on a reload (SpecLoad).                                          *)
(***************************************************************************)
FileNames(files) == {files[i].name : i \in 1..Len(files)}
EntryIds(entries) == {entries[i].id : i \in 1..Len(entries)}

\* a call of a file-backed adapter that was not served from the cache
Reloaded == reload.pc \in {"done", "failed"} /\ reload.type \in FileBacked /\ ~reload.cached

C12_FileWithoutFileModeUsesRest ==
    (reload.pc # "idle" /\ reload.type = "file") =>
        IF reload.source.directory = ""
        THEN requests \subseteq {"logs", "stats"}
        ELSE requests \subseteq {"list", "download"}

MaxEntries == 2         \* entries of an enumerated collection
MaxPageIndex == 2       \* page index
MaxPageSize == 2        \* page size (next to the default page size)
BoundaryCount == 105    \* entries of the large collection

UpperLetters ==
    <<"A", "B", "C", "D", "E", "F", "G", "H", "I", "J", "K", "L", "M",
      "N", "O", "P", "Q", "R", "S", "T", "U", "V", "W", "X", "Y", "Z">>
LowerLetters ==
    <<"a", "b", "c", "d", "e", "f", "g", "h", "i", "j", "k", "l", "m",
      "n", "o", "p", "q", "r", "s", "t", "u", "v", "w", "x", "y", "z">>
Digits == <<"0", "1", "2", "3", "4", "5", "6", "7", "8", "9">>

IndexIn(seq, c) == CHOOSE i \in 1..Len(seq) : seq[i] = c

LowerChar(c) ==
    IF c \in SeqToSet(UpperLetters) THEN LowerLetters[IndexIn(UpperLetters, c)] ELSE c
UpperChar(c) ==
    IF c \in SeqToSet(LowerLetters) THEN UpperLetters[IndexIn(LowerLetters, c)] ELSE c

\* String.prototype.toLowerCase / toUpperCase
StrLower(str) == [i \in 1..Len(str) |-> LowerChar(str[i])]
StrUpper(str) == [i \in 1..Len(str) |-> UpperChar(str[i])]

Drop(str, k) == SubSeq(str, k + 1, Len(str))

\* String.prototype.includes
Includes(str, sub) ==
    \E k \in 0..(Len(str) - Len(sub)) : SubSeq(str, k + 1, k + Len(sub)) = sub

\* the pattern matches a prefix of str.  The pattern is the source of
\* new RegExp(url.replace(/%/g, '.*'), 'i'): '%' stands for '.*', '.' for any
\* character, every other character of the alphabet for itself, case folded
RECURSIVE MatchHere(_, _)
MatchHere(pat, str) ==
    IF pat = <<>> THEN TRUE
    ELSE IF pat[1] = "%"
         THEN \E k \in 0..Len(str) : MatchHere(Tail(pat), Drop(str, k))
         ELSE /\ str # <<>>
              /\ pat[1] = "." \/ LowerChar(pat[1]) = LowerChar(str[1])
              /\ MatchHere(Tail(pat), Tail(str))

\* pattern.test(e.url): the pattern matches somewhere in str
RegExpTest(pat, str) == \E k \in 0..Len(str) : MatchHere(pat, Drop(str, k))

\* /^\d+$/.test(filter)
IsDigits(str) == str # <<>> /\ \A i \in 1..Len(str) : str[i] \in SeqToSet(Digits)

\* the value of a run of digits
RECURSIVE DigitsValue(_)
DigitsValue(str) ==
    IF str = <<>> THEN 0
    ELSE 10 * DigitsValue(SubSeq(str, 1, Len(str) - 1)) + (IndexIn(Digits, str[Len(str)]) - 1)

\* the longest prefix of digits
RECURSIVE DigitPrefix(_)
DigitPrefix(str) ==
    IF str = <<>> \/ str[1] \notin SeqToSet(Digits) THEN <<>>
    ELSE <<str[1]>> \o DigitPrefix(Tail(str))

\* parseInt(str): <<>> is NaN, <<n>> the number of the leading digits
parseInt(str) == IF DigitPrefix(str) = <<>> THEN <<>> ELSE <<DigitsValue(DigitPrefix(str))>>

\* every status filter other than the class tokens and digits is a status test
matchStatusStrict(actual, filter) ==
    IF filter[1] \in SeqToSet(Digits) /\ Len(filter) = 3 /\ StrLower(Drop(filter, 1)) = <<"x", "x">>
    THEN actual \div 100 = DigitsValue(<<filter[1]>>)
    ELSE parseInt(filter) = <<actual>>

\* matchStatus(actual, filter)
matchStatus(actual, filter) ==
    IF filter = <<"2", "x", "x">> THEN actual >= 200 /\ actual < 300
    ELSE IF filter = <<"3", "x", "x">> THEN actual >= 300 /\ actual < 400
    ELSE IF filter = <<"4", "x", "x">> THEN actual >= 400 /\ actual < 500
    ELSE IF filter = <<"5", "x", "x">> THEN actual >= 500 /\ actual < 600
    ELSE IF IsDigits(filter) THEN <<actual>> = parseInt(filter)
    ELSE TRUE

\* ApiLogEntry: the fields the filters and the sort read
FilterEntry(id, appName, url, method, status, time, ms, remoteAddr, serverName) ==
    [id |-> id, appName |-> appName, url |-> url, method |-> method,
     responseStatus |-> status, requestTime |-> time, processingTimeMs |-> ms,
     remoteAddr |-> remoteAddr, serverName |-> serverName]

\* /api/orders, /api/orders/1, /v1/api/x, /API/users
Catalogue ==
    << FilterEntry(1, <<"shop">>, <<"/", "a", "p", "i", "/", "o", "r", "d", "e", "r", "s">>, <<"G", "E", "T">>, 200, 1, 5, <<<<"1", "0", ".", "1">>>>, <<<<"W", "e", "b">>>>),
       FilterEntry(2, <<"pay">>, <<"/", "a", "p", "i", "/", "o", "r", "d", "e", "r", "s", "/", "1">>, <<"g", "e", "t">>, 201, 2, 50, <<>>, <<<<"d", "b">>>>),
       FilterEntry(3, <<>>, <<"/", "v", "1", "/", "a", "p", "i", "/", "x">>, <<"P", "O", "S", "T">>, 404, 3, 0, <<<<"1", "0", ".", "2">>>>, <<>>),
       FilterEntry(4, <<"shop">>, <<"/", "A", "P", "I", "/", "u", "s", "e", "r", "s">>, <<"P", "o", "s", "t">>, 500, 2, 5, <<<<"1", "0", ".", "2">>>>, <<<<"W", "e", "b">>>>) >>

ProbeStatuses == <<2, 4, 199, 200, 299, 300, 399, 400, 499, 500, 599, 600>>

\* one entry per status around the class boundaries
StatusProbes == [i \in 1..Len(ProbeStatuses) |-> [Catalogue[1] EXCEPT !.id = i, !.responseStatus = ProbeStatuses[i]]]

\* the large collection
Boundary == [i \in 1..BoundaryCount |-> [Catalogue[1] EXCEPT !.id = i, !.requestTime = i % 7]]

Collections ==
    UNION {[1..n -> SeqToSet(Catalogue)] : n \in 0..MaxEntries}
        \cup {Catalogue, StatusProbes}

NoFilters ==
    [appName |-> "", url |-> <<>>, method |-> <<>>, statusCode |-> <<>>,
     startTime |-> 0, endTime |-> 0, minProcessingTimeMs |-> -1,
     remoteAddr |-> <<>>, serverName |-> <<>>]

UrlFilters == {<<"/", "a", "p", "i", "/", "%">>, <<"%", "o", "r", "d", "e", "r", "s">>, <<"o", "r", "d", "e", "r", "s">>, <<"O", "R", "D", "E", "R", "S">>, <<"/", "a", "p", "i", "/", "%", "/", "1">>, <<"%">>, <<"/", "v", "1", ".", "a", "p", "i">>}
MethodFilters == {<<"g", "e", "t">>, <<"G", "E", "T">>, <<"P", "o", "s", "t">>}
StatusFilters ==
    {<<"2", "x", "x">>, <<"3", "x", "x">>, <<"4", "x", "x">>, <<"5", "x", "x">>, <<"4", "0", "4">>, <<"2", "0", "0">>, <<"0", "2", "0", "0">>, <<"a", "b", "c">>, <<"2", "X", "X">>, <<"6", "x", "x">>, <<"4">>}

FilterBundles ==
    {NoFilters}
      \cup {[NoFilters EXCEPT !.url = u] : u \in UrlFilters}
      \cup {[NoFilters EXCEPT !.method = m] : m \in MethodFilters}
      \cup {[NoFilters EXCEPT !.statusCode = c] : c \in StatusFilters}
      \cup {[NoFilters EXCEPT !.appName = a] : a \in {"shop", "pay"}}
      \cup {[NoFilters EXCEPT !.startTime = t] : t \in {2}}
      \cup {[NoFilters EXCEPT !.endTime = t] : t \in {2}}
      \cup {[NoFilters EXCEPT !.minProcessingTimeMs = m] : m \in {0, 5}}
      \cup {[NoFilters EXCEPT !.remoteAddr = <<"0", ".", "2">>]}
      \cup {[NoFilters EXCEPT !.serverName = <<"W", "E", "B">>]}
      \cup {[NoFilters EXCEPT !.url = <<"/", "a", "p", "i", "/", "%">>, !.statusCode = <<"2", "x", "x">>],
            [NoFilters EXCEPT !.appName = "shop", !.method = <<"P", "o", "s", "t">>, !.startTime = 2]}

FilterSorts == {defaultSort, [field |-> "processingTimeMs", direction |-> "asc"]}

PageSizes == (1..MaxPageSize) \cup {50}

InitFilter ==
    /\ sources = <<>>
    /\ selectedSourceIds = <<>>
    /\ FilterStoreInit
    /\ CacheIdle
    /\ MergeIdle
    /\ QueryIdle
    /\ LoadIdle
    /\ UiIdle
    /\ input \in [entries : Collections, filters : FilterBundles, sort : FilterSorts,
                  page : 0..MaxPageIndex, pageSize : PageSizes]
                 \cup [entries : {Boundary}, filters : {NoFilters}, sort : {defaultSort},
                       page : 0..(MaxPageIndex + 1), pageSize : {50}]
    /\ output = EmptyMap

\* the url filter of filterAndPage
UrlMatches(url, f) ==
    IF "%" \in SeqToSet(f)
    THEN RegExpTest(f, url)
    ELSE Includes(StrLower(url), StrLower(f))

\* e.remoteAddr?.toLowerCase().includes(r): null does not pass
NullableIncludes(field, f) == field # <<>> /\ Includes(StrLower(field[1]), StrLower(f))

\* the conjunction of the filters of filterAndPage that are set
Passes(e, f) ==
    /\ f.appName # "" => e.appName = <<f.appName>>
    /\ f.url # <<>> => UrlMatches(e.url, f.url)
    /\ f.method # <<>> => StrUpper(e.method) = StrUpper(f.method)
    /\ f.statusCode # <<>> => matchStatus(e.responseStatus, f.statusCode)
    /\ f.startTime # 0 => e.requestTime >= f.startTime
    /\ f.endTime # 0 => e.requestTime <= f.endTime
    /\ f.minProcessingTimeMs # -1 => e.processingTimeMs >= f.minProcessingTimeMs
    /\ f.remoteAddr # <<>> => NullableIncludes(e.remoteAddr, f.remoteAddr)
    /\ f.serverName # <<>> => NullableIncludes(e.serverName, f.serverName)

\* the place of each entry after a stable sort with the comparator of the
\* merge: one more than the number of entries that go before it
Ranks(entries, srt) ==
    [j \in 1..Len(entries) |->
        Cardinality({k \in 1..Len(entries) :
            \/ Compare(srt, entries[k], entries[j]) < 0
            \/ (Compare(srt, entries[k], entries[j]) = 0 /\ k < j)}) + 1]

Place(entries, rank) ==
    [i \in 1..Len(entries) |-> entries[CHOOSE j \in 1..Len(entries) : rank[j] = i]]

\* [...filtered].sort(comparator)
SortFiltered(entries, srt) == Place(entries, Ranks(entries, srt))

\* the total taken before the filters
UnfilteredTotal(entries, filtered) == Len(entries)

\* const totalElements = filtered.length
TotalElements(entries, filtered) == Len(filtered)

\* Array.prototype.slice(from, to)
Slice(seq, from, to) == SubSeq(seq, from + 1, Min(to, Len(seq)))

filterAndPage(entries, f, srt, pg, size) ==
    LET filtered == SortFiltered(SelectSeq(entries, LAMBDA e : Passes(e, f)), srt)
        totalElements == TotalElements(entries, filtered)
        from == pg * size
    IN [content |-> Slice(filtered, from, from + size),
        page |-> pg,
        size |-> size,
        totalElements |-> totalElements,
        totalPages |-> CeilDiv(totalElements, size)]

\* SQL LIKE: the whole value, case sensitive, '%' any run of characters
RECURSIVE Like(_, _)
Like(str, pat) ==
    IF pat = <<>> THEN str = <<>>
    ELSE IF pat[1] = "%"
         THEN \E k \in 0..Len(str) : Like(Drop(str, k), Tail(pat))
         ELSE str # <<>> /\ str[1] = pat[1] /\ Like(Tail(str), Tail(pat))

\* SQL ILIKE; a null column matches nothing
ILike(str, pat) == Like(StrLower(str), StrLower(pat))
NullableILike(field, pat) == field # <<>> /\ ILike(field[1], pat)

\* the predicates fetchSupabaseLogs puts on the query
RowSelected(e, f) ==
    /\ f.appName # "" => e.appName = <<f.appName>>
    /\ f.url # <<>> =>
          IF "%" \in SeqToSet(f.url) THEN Like(e.url, f.url)
          ELSE ILike(e.url, <<"%">> \o f.url \o <<"%">>)
    /\ f.method # <<>> => e.method = StrUpper(f.method)
    /\ f.statusCode # <<>> => <<e.responseStatus>> = parseInt(f.statusCode)
    /\ f.startTime # 0 => e.requestTime >= f.startTime
    /\ f.endTime # 0 => e.requestTime <= f.endTime
    /\ f.minProcessingTimeMs # -1 => e.processingTimeMs >= f.minProcessingTimeMs
    /\ f.remoteAddr # <<>> => NullableILike(e.remoteAddr, <<"%">> \o f.remoteAddr \o <<"%">>)
    /\ f.serverName # <<>> => NullableILike(e.serverName, <<"%">> \o f.serverName \o <<"%">>)

\* filtered.sort(comparator) without the copy: unless a filter clause made a
\* new array, filtered is the array passed in, and the sort reorders it
EntriesSortedInPlace(entries, f, srt) ==
    IF f = NoFilters THEN SortFiltered(entries, srt) ELSE entries

\* the array passed to filterAndPage, after the call: Array.prototype.filter
\* and slice make new arrays and the sort runs on a copy ([...filtered])
EntriesAfterCall(entries, f, srt) == entries

\* filterAndPage(entries, filters, sort, page, pageSize) is evaluated on the
\* array input.entries (fetchFileApiLogs passes the cached array itself);
\* passed is history, the array as it was handed over
EvalFilterAndPage ==
    /\ "filterAndPage" \notin DOMAIN output
    /\ output' = MapSet(MapSet(output, "filterAndPage",
                           filterAndPage(input.entries, input.filters, input.sort,
                                         input.page, input.pageSize)),
                        "passed", input.entries)
    /\ input' = [input EXCEPT !.entries =
                     EntriesAfterCall(input.entries, input.filters, input.sort)]
    /\ UNCHANGED <<storeVars, filterVars, cacheVars, mergeVars, queryVars, loadVars, uiVars>>

\* the query of fetchSupabaseLogs is run on a table holding the same entries:
\* the rows its predicates select
EvalSupabaseQuery ==
    /\ "fetchSupabaseLogs" \notin DOMAIN output
    /\ output' = MapSet(output, "fetchSupabaseLogs",
                    SelectSeq(input.entries, LAMBDA e : RowSelected(e, input.filters)))
    /\ UNCHANGED input
    /\ UNCHANGED <<storeVars, filterVars, cacheVars, mergeVars, queryVars, loadVars, uiVars>>

\* the next fetchPage inside the TTL: filterAndPage is called again with the
\* same arguments, on the same array
EvalFilterAndPageAgain ==
    /\ "filterAndPage" \in DOMAIN output
    /\ "again" \notin DOMAIN output
    /\ output' = MapSet(output, "again",
                    filterAndPage(input.entries, input.filters, input.sort,
                                  input.page, input.pageSize))
    /\ input' = [input EXCEPT !.entries =
                     EntriesAfterCall(input.entries, input.filters, input.sort)]
    /\ UNCHANGED <<storeVars, filterVars, cacheVars, mergeVars, queryVars, loadVars, uiVars>>

NextFilter ==
    \/ EvalFilterAndPage
    \/ EvalFilterAndPageAgain
    \/ EvalSupabaseQuery

SpecFilter == InitFilter /\ [][NextFilter]_vars


(***************************************************************************)
(* Claims on the Filter/Sort/Page engine (SpecFilter).                     *)
(***************************************************************************)
Evaluated == "filterAndPage" \in DOMAIN output
PageResult == output["filterAndPage"]

\* the positions of the entries that pass the filters
PassingAt == {i \in 1..Len(input.entries) : Passes(input.entries[i], input.filters)}

\* C13: for every collection, filter set, page >= 0 and pageSize >= 1,
\* filterAndPage returns totalElements = number of entries passing the
\* filters, totalPages = ceil(totalElements / pageSize), and as content the
\* positions [page*pageSize, page*pageSize + pageSize) of the filtered and
\* sorted sequence, clamped to its length (105 entries, pageSize 50: 3 pages,
\* page 2 holds 5 entries, a page past the end is empty).
C13_PageOfFiltered ==
    Evaluated =>
        LET r == PageResult
            n == Cardinality(PassingAt)
            size == input.pageSize
            from == input.page * size
            sorted == SortFiltered(SelectSeq(input.entries,
                                             LAMBDA e : Passes(e, input.filters)), input.sort)
        IN /\ r.totalElements = n
           /\ r.totalPages * size >= n
           /\ (r.totalPages - 1) * size < n
           /\ Len(r.content) = IF from >= n THEN 0 ELSE Min(size, n - from)
           /\ \A i \in 1..Len(r.content) : r.content[i] = sorted[from + i]
           /\ (n = 105 /\ size = 50) =>
                 /\ r.totalPages = 3
                 /\ input.page = 2 => Len(r.content) = 5
                 /\ input.page = 3 => r.content = <<>>

\* the large collection in pages of 50: the third page is the last and is
\* not full
C13_Witness ==
    /\ Evaluated
    /\ Len(input.entries) > 2 * 50
    /\ input.pageSize = 50
    /\ input.page = 2
    /\ PageResult.totalPages = 3
    /\ Len(PageResult.content) \in 1..49

\* the whole result is on the page
OnOnePage == Evaluated /\ input.page = 0 /\ input.pageSize = 50 /\ Len(input.entries) <= 50

OnlyFilter(field) == input.filters = [NoFilters EXCEPT ![field] = input.filters[field]]

\* the whole url matches the pattern, letter case ignored, '%' any run of
\* characters, every other character itself
RECURSIVE WholeMatch(_, _)
WholeMatch(url, pat) ==
    IF pat = <<>> THEN url = <<>>
    ELSE IF pat[1] = "%"
         THEN \E k \in 0..Len(url) : WholeMatch(Drop(url, k), Tail(pat))
         ELSE /\ url # <<>>
              /\ LowerChar(url[1]) = LowerChar(pat[1])
              /\ WholeMatch(Tail(url), Tail(pat))

\* C14: a url filter containing '%' selects exactly the entries whose whole
\* url matches the pattern case-insensitively, '%' standing for any run of
\* characters, anchored at both ends ('/api/%' does not select '/v1/api/x',
\* '%orders' does not select '/api/orders/1'); a url filter without '%'
\* selects exactly the entries whose url contains it, letter case ignored.
C14_UrlFilterAnchored ==
    (OnOnePage /\ OnlyFilter("url") /\ input.filters.url # <<>>) =>
        LET f == input.filters.url
            selected == {e \in SeqToSet(input.entries) :
                            IF "%" \in SeqToSet(f)
                            THEN WholeMatch(e.url, f)
                            ELSE \E k \in 0..Len(e.url) : \E n \in 0..Len(e.url) :
                                    StrLower(SubSeq(e.url, k + 1, n)) = StrLower(f)}
        IN SeqToSet(PageResult.content) = selected

\* the class of a status filter: 2..5 for '2xx'..'5xx', 0 otherwise
StatusClass(f) ==
    IF Len(f) = 3 /\ f[2] = "x" /\ f[3] = "x" /\ f[1] \in {"2", "3", "4", "5"}
    THEN IndexIn(Digits, f[1]) - 1 ELSE 0

\* C15: the statusCode filter selects, for a class token '2xx'..'5xx',
\* exactly the entries whose status lies in that hundred range; for an
\* all-digit string exactly the entries whose status equals that number; for
\* any other non-empty value every entry.
C15_StatusFilter ==
    (OnOnePage /\ OnlyFilter("statusCode") /\ input.filters.statusCode # <<>>) =>
        LET f == input.filters.statusCode
            selected == {e \in SeqToSet(input.entries) :
                            IF StatusClass(f) # 0
                            THEN /\ e.responseStatus >= 100 * StatusClass(f)
                                 /\ e.responseStatus <= 100 * StatusClass(f) + 99
                            ELSE IF \A i \in 1..Len(f) : f[i] \in SeqToSet(Digits)
                                 THEN e.responseStatus = DigitsValue(f)
                                 ELSE TRUE}
        IN /\ SeqToSet(PageResult.content) = selected
           /\ PageResult.totalElements =
                 Cardinality({i \in 1..Len(input.entries) : input.entries[i] \in selected})

\* statuses 200, 201, 404, 500 filtered by '4xx': the 404 entry alone
C15_Witness ==
    /\ OnOnePage
    /\ input.entries = Catalogue
    /\ input.filters = [NoFilters EXCEPT !.statusCode = <<"4", "x", "x">>]
    /\ PageResult.totalElements = 1
    /\ PageResult.content[1].responseStatus = 404

\* C16: for every entry set and every filter bundle the predicates the
\* database-style adapter sends to the store select the same entries as
\* filterAndPage selects from the same set.
C16_AdaptersSelectTheSame ==
    (OnOnePage /\ "fetchSupabaseLogs" \in DOMAIN output) =>
        SeqToSet(output["fetchSupabaseLogs"]) = SeqToSet(PageResult.content)


MaxCount == 100         \* entries the statistics are computed on

\* processing times of n entries: all distinct, or with ties
TimesOf(n, pattern) ==
    [i \in 1..n |-> IF pattern = "distinct" THEN (i * 37) % 211 ELSE i % 3]

InitStats ==
    /\ sources = <<>>
    /\ selectedSourceIds = <<>>
    /\ FilterStoreInit
    /\ CacheIdle
    /\ MergeIdle
    /\ QueryIdle
    /\ LoadIdle
    /\ UiIdle
    /\ \E n \in 0..MaxCount, pattern \in {"distinct", "ties"} :
          input = TimesOf(n, pattern)
    /\ output = EmptyMap

\* times.sort((a, b) => a - b)[idx] (idx from 0): the value that has idx
\* values before it in ascending order, ties in load order
SortedAt(times, idx) ==
    LET before(j) == Cardinality({k \in 1..Len(times) :
                        times[k] < times[j] \/ (times[k] = times[j] /\ k < j)})
    IN times[CHOOSE j \in 1..Len(times) : before(j) = idx]

Max(a, b) == IF a > b THEN a ELSE b

\* Math.floor(n * 0.99), Math.ceil(n * 0.99)
Floor99(n) == (n * 99) \div 100
Ceil99(n) == CeilDiv(n * 99, 100)

\* Math.min(Math.floor(totalCount * 0.99), totalCount - 1)
P99IndexFloor(n) == Min(Floor99(n), n - 1)

\* Math.max(0, Math.ceil(totalCount * 0.99) - 1)
P99IndexCeil(n) == Max(0, Ceil99(n) - 1)

Stats(times, idx) ==
    [totalCount |-> Len(times),
     maxProcessingTimeMs |-> IF times = <<>> THEN 0 ELSE SortedAt(times, Len(times) - 1),
     p99ProcessingTimeMs |-> IF times = <<>> THEN 0 ELSE SortedAt(times, idx)]

EvalStats(adapter, idx) ==
    /\ adapter \notin DOMAIN output
    /\ output' = MapSet(output, adapter, Stats(input, idx))
    /\ UNCHANGED input
    /\ UNCHANGED <<storeVars, filterVars, cacheVars, mergeVars, queryVars, loadVars, uiVars>>

\* database-style adapter
fetchSupabaseStats == EvalStats("supabase", P99IndexFloor(Len(input)))

\* object-storage adapter
fetchSupabaseS3Stats == EvalStats("supabase-s3", P99IndexFloor(Len(input)))

\* remote-file-listing adapter
fetchFileApiStats == EvalStats("file", P99IndexCeil(Len(input)))

NextStats ==
    \/ fetchSupabaseStats
    \/ fetchSupabaseS3Stats
    \/ fetchFileApiStats

SpecStats == InitStats /\ [][NextStats]_vars

(***************************************************************************)
(* Claims on the statistics (SpecStats).                                   *)
(***************************************************************************)

\* C17: every adapter that computes statistics on the client returns as
\* p99ProcessingTimeMs the element at index min(floor(n * 0.99), n - 1) of the
\* ascending-sorted processing times, for every n >= 1, so all of them return
\* the same p99 for the same entries.
C17_SameP99 ==
    Len(input) >= 1 =>
        /\ \A a \in DOMAIN output :
              output[a].p99ProcessingTimeMs =
                  SortedAt(input, Min((Len(input) * 99) \div 100, Len(input) - 1))
        /\ \A a, b \in DOMAIN output :
              output[a].p99ProcessingTimeMs = output[b].p99ProcessingTimeMs


(***************************************************************************)
(* SpecParse: the File Log Parser (parseJsonl, parseCsv, parseCsvRow of    *)
(* fileService; _parseJsonl of fileApiService).                            *)
(*                                                                         *)
(* A text is a sequence of characters.  In an NDJSON text a whole JSON     *)
(* value is written as one character: "{1}" and "{2}" are objects with     *)
(* that id, "null" and "42" the JSON values null and 42, "{bad" a          *)
(* truncated object.  A CSV text is written character by character.        *)
(***************************************************************************)
MaxTokens == 5          \* characters of an NDJSON text
MaxFieldLength == 2     \* characters of a CSV field

Whitespace == {" ", "\r", "\n"}

\* String.prototype.split('\n')
RECURSIVE SplitLines(_)
SplitLines(text) ==
    IF "\n" \notin SeqToSet(text) THEN <<text>>
    ELSE LET k == CHOOSE i \in 1..Len(text) :
                     text[i] = "\n" /\ \A j \in 1..(i - 1) : text[j] # "\n"
         IN <<SubSeq(text, 1, k - 1)>> \o SplitLines(Drop(text, k))

\* String.prototype.trim
RECURSIVE Trim(_)
Trim(line) ==
    IF line = <<>> THEN <<>>
    ELSE IF line[1] \in Whitespace THEN Trim(Tail(line))
    ELSE IF line[Len(line)] \in Whitespace THEN Trim(SubSeq(line, 1, Len(line) - 1))
    ELSE line

JsonObjects == {"{1}", "{2}"}
JsonValues == JsonObjects \cup {"null", "42"}

\* JSON.parse(trimmed) succeeds: the text is one JSON value
JsonParses(trimmed) == Len(trimmed) = 1 /\ trimmed[1] \in JsonValues

\* normalizeEntry(obj): id is String(obj.id ?? crypto.randomUUID()); reading
\* obj.id of null throws
normalizeEntry(value) == [id |-> IF value \in JsonObjects THEN value ELSE "uuid"]

\* only a line that is a JSON object yields an entry
LineEntriesOfObjects(line) ==
    IF JsonParses(Trim(line)) /\ Trim(line)[1] \in JsonObjects
    THEN <<normalizeEntry(Trim(line)[1])>> ELSE <<>>

\* the body of the loop of parseJsonl on one line: skip a blank line, push
\* the normalized value, catch what JSON.parse or normalizeEntry throws
LineEntries(line) ==
    LET trimmed == Trim(line) IN
    IF trimmed = <<>> THEN <<>>
    ELSE IF ~JsonParses(trimmed) THEN <<>>
    ELSE IF trimmed[1] = "null" THEN <<>>
    ELSE <<normalizeEntry(trimmed[1])>>

RECURSIVE Concat(_)
Concat(seqs) == IF seqs = <<>> THEN <<>> ELSE seqs[1] \o Concat(Tail(seqs))

\* parseJsonl(text) of fileService, _parseJsonl(text) of fileApiService
parseJsonl(text) ==
    LET lines == SplitLines(text) IN Concat([i \in 1..Len(lines) |-> LineEntries(lines[i])])

\* the loop of parseCsvRow from position i on
RECURSIVE CsvRowFrom(_, _, _, _, _)
CsvRowFrom(line, i, current, inQuotes, values) ==
    IF i > Len(line) THEN Append(values, current)
    ELSE IF line[i] = "\""
         THEN IF inQuotes /\ i + 1 <= Len(line) /\ line[i + 1] = "\""
              THEN CsvRowFrom(line, i + 2, Append(current, "\""), inQuotes, values)
              ELSE CsvRowFrom(line, i + 1, current, ~inQuotes, values)
         ELSE IF line[i] = "," /\ ~inQuotes
              THEN CsvRowFrom(line, i + 1, <<>>, inQuotes, Append(values, current))
              ELSE CsvRowFrom(line, i + 1, Append(current, line[i]), inQuotes, values)

parseCsvRow(line) == CsvRowFrom(line, 1, <<>>, FALSE, <<>>)

ColumnId == <<"i", "d">>
ColumnUrl == <<"u", "r", "l">>

\* obj[h] = values[idx] ?? '' for every header, then normalizeEntry(obj):
\* String(obj.id ?? crypto.randomUUID()), String(obj.url ?? '')
normalizeRow(headers, values) ==
    LET Column(h, missing) ==
            IF h \in SeqToSet(headers)
            THEN LET idx == IndexIn(headers, h)
                 IN IF idx <= Len(values) THEN values[idx] ELSE <<>>
            ELSE missing
    IN [id |-> Column(ColumnId, <<"u", "u", "i", "d">>), url |-> Column(ColumnUrl, <<>>)]

\* parseCsv(text)
parseCsv(text) ==
    LET lines == SelectSeq(SplitLines(text), LAMBDA l : Trim(l) # <<>>)
        headers == [i \in 1..Len(parseCsvRow(lines[1])) |-> Trim(parseCsvRow(lines[1])[i])]
        RowEntries(line) ==
            LET values == parseCsvRow(line)
            IN IF Len(values) < 2 THEN <<>> ELSE <<normalizeRow(headers, values)>>
    IN IF Len(lines) < 2 THEN <<>>
       ELSE Concat([i \in 1..(Len(lines) - 1) |-> RowEntries(lines[i + 1])])

\* a field as the writer of the log files puts it in a row (standard CSV
\* quoting): in double quotes, with every quote doubled, if it holds a comma,
\* a quote or a line break
RECURSIVE DoubleQuotes(_)
DoubleQuotes(field) ==
    IF field = <<>> THEN <<>>
    ELSE (IF field[1] = "\"" THEN <<"\"", "\"">> ELSE <<field[1]>>) \o DoubleQuotes(Tail(field))

CsvField(field) ==
    IF SeqToSet(field) \cap {",", "\"", "\n"} # {}
    THEN <<"\"">> \o DoubleQuotes(field) \o <<"\"">>
    ELSE field

RECURSIVE CsvRow(_)
CsvRow(fields) ==
    IF Len(fields) = 1 THEN CsvField(fields[1])
    ELSE CsvField(fields[1]) \o <<",">> \o CsvRow(Tail(fields))

\* the file: the header row and one data row
CsvText(headers, fields) == CsvRow(headers) \o <<"\n">> \o CsvRow(fields)

JsonCharacters == JsonValues \cup {"{bad", " ", "\n"}
CsvCharacters == {"a", ",", "\"", "\n"}

CsvFields == UNION {[1..n -> CsvCharacters] : n \in 0..MaxFieldLength}

InitParse ==
    /\ sources = <<>>
    /\ selectedSourceIds = <<>>
    /\ FilterStoreInit
    /\ CacheIdle
    /\ MergeIdle
    /\ QueryIdle
    /\ LoadIdle
    /\ UiIdle
    /\ \/ \E n \in 0..MaxTokens : \E text \in [1..n -> JsonCharacters] :
             input = [format |-> "json", text |-> text]
       \/ \E fields \in [1..2 -> CsvFields] :
             input = [format |-> "csv", headers |-> <<ColumnId, ColumnUrl>>,
                      fields |-> fields, text |-> CsvText(<<ColumnId, ColumnUrl>>, fields)]
       \/ \E field \in CsvFields :
             input = [format |-> "csv", headers |-> <<ColumnId>>,
                      fields |-> <<field>>, text |-> CsvText(<<ColumnId>>, <<field>>)]
    /\ output = EmptyMap

EvalParse(fn, format, entries) ==
    /\ input.format = format
    /\ fn \notin DOMAIN output
    /\ output' = MapSet(output, fn, entries)
    /\ UNCHANGED input
    /\ UNCHANGED <<storeVars, filterVars, cacheVars, mergeVars, queryVars, loadVars, uiVars>>

\* parseLogFile(file) of fileService on a .json, .jsonl or .ndjson file
EvalParseJsonl == EvalParse("parseJsonl", "json", parseJsonl(input.text))

\* _parseSync(text, 'json') of fileApiService
EvalParseSync == EvalParse("_parseJsonl", "json", parseJsonl(input.text))

\* parseLogFile(file) of fileService on a .csv file
EvalParseCsv == EvalParse("parseCsv", "csv", parseCsv(input.text))

NextParse ==
    \/ EvalParseJsonl
    \/ EvalParseSync
    \/ EvalParseCsv

SpecParse == InitParse /\ [][NextParse]_vars


(***************************************************************************)
(* Claims on the File Log Parser (SpecParse).                              *)
(***************************************************************************)

\* the non-blank lines of the NDJSON text that are valid JSON, in line order
ValidJsonLines ==
    SelectSeq(SplitLines(input.text), LAMBDA l : Trim(l) # <<>> /\ JsonParses(Trim(l)))

NonNullJsonLines == SelectSeq(ValidJsonLines, LAMBDA l : Trim(l)[1] # "null")

C19_CsvFieldsRecovered ==
    (input.format = "csv" /\ "parseCsv" \in DOMAIN output) =>
        output["parseCsv"] =
            IF Len(input.fields) < 2 THEN <<>>
            ELSE << [id |-> input.fields[1], url |-> input.fields[2]] >>


(***************************************************************************)
(* SpecStore: the source store and the settings page.                      *)
(*                                                                         *)
(* The store starts empty.  Sources are created by the form (addSource     *)
(* hands out a fresh UUID), edited by the form (handleSubmit), enabled,    *)
(* disabled, selected, removed, exported to a file and imported from a     *)
(* file.  A file is written as the JSON value its text denotes.  The       *)
(* import dialog is modal: while importData is set only its two buttons    *)
(* act.  lastOp names the operation of the last step and what it was       *)
(* given.                                                                  *)
(***************************************************************************)
MaxAdds == 2            \* sources created through the form
MaxOps == 6             \* operations of one behaviour

SOURCE_COLORS ==
    << "#3b82f6", "#10b981", "#f59e0b", "#ef4444", "#8b5cf6",
       "#ec4899", "#06b6d4", "#84cc16", "#f97316", "#6366f1" >>

\* crypto.randomUUID(): the n-th identifier handed out, never one handed out before
randomUUID(n) == "uuid-" \o ToString(n)

nextColor(srcs) ==
    LET usedColors == {srcs[i].color : i \in 1..Len(srcs)}
        free == {i \in 1..Len(SOURCE_COLORS) : SOURCE_COLORS[i] \notin usedColors}
    IN IF free # {}
       THEN SOURCE_COLORS[CHOOSE i \in free : \A j \in free : i <= j]
       ELSE SOURCE_COLORS[(Len(srcs) % Len(SOURCE_COLORS)) + 1]

IdsOf(srcs) == [i \in 1..Len(srcs) |-> srcs[i].id]
EnabledIds(srcs) == IdsOf(SelectSeq(srcs, LAMBDA s : s.enabled))

\* sourceStore.addSource
addSource(source) ==
    LET id == randomUUID(nextId + 1)
        color == nextColor(sources)
        newSource == Spread(source, [id |-> id, color |-> color])
    IN /\ sources' = Append(sources, newSource)
       /\ selectedSourceIds' = Append(selectedSourceIds, id)
       /\ nextId' = nextId + 1

\* a removal that forgets the selection
removeSourceKeepingSelection(id) ==
    /\ sources' = SelectSeq(sources, LAMBDA s : s.id # id)
    /\ UNCHANGED selectedSourceIds

\* sourceStore.removeSource
removeSource(id) ==
    /\ sources' = SelectSeq(sources, LAMBDA s : s.id # id)
    /\ selectedSourceIds' = SelectSeq(selectedSourceIds, LAMBDA sid : sid # id)

\* sourceStore.toggleSource
toggleSource(id) ==
    /\ sources' = [i \in 1..Len(sources) |->
                     IF sources[i].id = id
                     THEN Spread(sources[i], [enabled |-> ~sources[i].enabled])
                     ELSE sources[i]]
    /\ UNCHANGED selectedSourceIds

\* sourceStore.selectAllSources
selectAllSources ==
    /\ selectedSourceIds' = EnabledIds(sources)
    /\ UNCHANGED sources

\* sourceStore.deselectAllSources
deselectAllSources ==
    /\ selectedSourceIds' = <<>>
    /\ UNCHANGED sources

\* sourceStore.replaceSources
replaceSources(incoming) ==
    /\ sources' = incoming
    /\ selectedSourceIds' = EnabledIds(incoming)

\* a merge that appends every incoming source
mergeSourcesAppendingAll(incoming) ==
    /\ sources' = sources \o incoming
    /\ selectedSourceIds' = selectedSourceIds \o EnabledIds(incoming)

\* sourceStore.mergeSources
mergeSources(incoming) ==
    LET existingIds == SourceIds
        newOnes == SelectSeq(incoming, LAMBDA s : s.id \notin existingIds)
    IN /\ sources' = sources \o newOnes
       /\ selectedSourceIds' = selectedSourceIds \o EnabledIds(newOnes)

\* the keys of a source that hold a boolean; every other key holds a string
\* or undefined
BooleanKeys == {"enabled"}
IsUndefinedAt(obj, key) == key \notin BooleanKeys /\ Get(obj, key) = undefined
\* !obj[key] for a key holding a string
Falsy(obj, key) == key \notin BooleanKeys /\ Get(obj, key) \in {undefined, ""}

\* JSON.parse(JSON.stringify(obj)) of a flat object: a key holding undefined
\* is not written
JsonObject(obj) == [k \in {key \in DOMAIN obj : ~IsUndefinedAt(obj, key)} |-> obj[k]]
JsonArray(list) == [i \in 1..Len(list) |-> JsonObject(list[i])]

\* an export of the enabled sources only
PayloadOfEnabled(srcs) ==
    [isArray |-> FALSE,
     object |-> [version |-> 1, exportedAt |-> now,
                 sources |-> JsonArray(SelectSeq(srcs, LAMBDA src : src.enabled))]]

\* exportSources: the payload as the downloaded file holds it
Payload(srcs) ==
    [isArray |-> FALSE,
     object |-> [version |-> 1, exportedAt |-> now, sources |-> JsonArray(srcs)]]

\* files a user may pick that no export wrote
ImportedSource(id, name, enabled) ==
    [id |-> id, name |-> name, type |-> "api", enabled |-> enabled,
     color |-> SOURCE_COLORS[1], url |-> "u1", anonKey |-> "k1", dir |-> "d1"]

HandWrittenFiles ==
    { [isArray |-> TRUE, list |-> <<ImportedSource("x", "Ext", TRUE)>>],
      [isArray |-> TRUE, list |-> <<ImportedSource("x", "Ext", TRUE),
                                    ImportedSource("x", "Twin", TRUE)>>],
      [isArray |-> TRUE, list |-> <<ImportedSource("uuid-1", "Old", FALSE),
                                    ImportedSource("y", "Why", TRUE)>>],
      [isArray |-> TRUE, list |-> <<>>],
      [isArray |-> TRUE, list |-> <<ImportedSource("x", "", TRUE)>>],
      [isArray |-> FALSE, object |-> [version |-> 1]] }

\* the ids a file can name: ids made elsewhere, and UUIDs this store handed out
\* (a UUID is in no file before it is made)
KnownIds == {"x", "y"} \cup {randomUUID(n) : n \in 1..nextId}

FileIds(file) ==
    IF file.isArray THEN {file.list[i].id : i \in 1..Len(file.list)} ELSE {}

\* the files the user can pick
Files ==
    {file \in HandWrittenFiles : FileIds(file) \subseteq KnownIds}
        \cup (IF exported = <<>> THEN {} ELSE {exported[1].file})

\* handleImportFile: the list of the parsed file, null (<<>>) without one
ListOf(parsed) ==
    IF parsed.isArray THEN <<parsed.list>>
    ELSE IF "sources" \in DOMAIN parsed.object THEN <<parsed.object.sources>>
    ELSE <<>>

\* handleImportFile: the error the file is rejected with ("": accepted)
ImportError(parsed) ==
    IF ListOf(parsed) = <<>> THEN "errorFormat"
    ELSE IF Len(ListOf(parsed)[1]) = 0 THEN "errorEmpty"
    ELSE IF \E i \in 1..Len(ListOf(parsed)[1]) :
                LET src == ListOf(parsed)[1][i]
                IN Falsy(src, "id") \/ Falsy(src, "name") \/ Falsy(src, "type")
         THEN "errorEntry"
    ELSE ""

\* SourceForm.isValid
isValid(type, name, url, anonKey) ==
    /\ name # ""
    /\ IF type \in {"supabase", "supabase-s3"} THEN url # "" /\ anonKey # ""
       ELSE url # ""

StoreTypes == {"api", "supabase"}
StoreNames == {"Alpha", "Beta"}
StoreKeys == {"", "k1"}

InitStore ==
    /\ sources = <<>>
    /\ selectedSourceIds = <<>>
    /\ FilterStoreInit
    /\ CacheIdle
    /\ MergeIdle
    /\ QueryIdle
    /\ RestIdle

DialogClosed == importData = <<>>

\* the behaviours explored are those of at most MaxOps operations
CanStep == lastOp.n < MaxOps
Step(operation) == lastOp' = Spread(operation, [n |-> lastOp.n + 1])

\* SourceForm.handleSubmit of the add form
FormAdd(type, name, anonKey) ==
    /\ CanStep
    /\ DialogClosed
    /\ nextId < MaxAdds
    /\ isValid(type, name, "u1", anonKey)
    /\ addSource(buildSource(type, name, "u1", anonKey, "d1"))
    /\ Step([name |-> "addSource", id |-> randomUUID(nextId + 1)])
    /\ UNCHANGED <<autoRefreshInterval, exported, importData>>
    /\ UNCHANGED <<filterVars, cacheVars, mergeVars, queryVars, loadVars, evalVars>>

\* SourceForm.handleSubmit of the edit form of the i-th card
FormSave(i, name, anonKey) ==
    /\ CanStep
    /\ DialogClosed
    /\ i \in 1..Len(sources)
    /\ LET existing == sources[i]
           src == buildSource(existing.type, name, existing.url, anonKey, existing.dir)
       IN /\ isValid(existing.type, name, existing.url, anonKey)
          /\ SubmitEdit(existing, src)
          /\ Step([name |-> "updateSource", id |-> existing.id, index |-> i,
                   wasEnabled |-> existing.enabled])
    /\ UNCHANGED <<now, loads, edits, selectedSourceIds>>
    /\ UNCHANGED <<autoRefreshInterval, nextId, exported, importData>>
    /\ UNCHANGED <<filterVars, mergeVars, queryVars, loadVars, evalVars>>

\* SourceCard: the delete button of the i-th card, confirmed
CardRemove(i) ==
    /\ CanStep
    /\ DialogClosed
    /\ i \in 1..Len(sources)
    /\ removeSource(sources[i].id)
    /\ Step([name |-> "removeSource", id |-> sources[i].id,
             wasSelected |-> sources[i].id \in SeqToSet(selectedSourceIds)])
    /\ UNCHANGED <<autoRefreshInterval, nextId, exported, importData>>
    /\ UNCHANGED <<filterVars, cacheVars, mergeVars, queryVars, loadVars, evalVars>>

\* SourceCard: the enable/disable button of the i-th card
CardToggle(i) ==
    /\ CanStep
    /\ DialogClosed
    /\ i \in 1..Len(sources)
    /\ toggleSource(sources[i].id)
    /\ Step([name |-> "toggleSource", id |-> sources[i].id])
    /\ UNCHANGED <<autoRefreshInterval, nextId, exported, importData>>
    /\ UNCHANGED <<filterVars, cacheVars, mergeVars, queryVars, loadVars, evalVars>>

\* Sidebar.handleSourceClick on the logs page: the sidebar lists the enabled sources
SidebarToggle(i) ==
    /\ CanStep
    /\ DialogClosed
    /\ i \in 1..Len(sources)
    /\ sources[i].enabled
    /\ toggleSelectedSource(sources[i].id)
    /\ Step([name |-> "toggleSelectedSource", id |-> sources[i].id])
    /\ UNCHANGED <<autoRefreshInterval, nextId, exported, importData>>
    /\ UNCHANGED <<filterVars, cacheVars, mergeVars, queryVars, loadVars, evalVars>>

\* Sidebar: allSelected
AllSelected ==
    /\ EnabledIds(sources) # <<>>
    /\ SeqToSet(EnabledIds(sources)) \subseteq SeqToSet(selectedSourceIds)

\* Sidebar: the select all / deselect all button
SidebarSelectAll ==
    /\ CanStep
    /\ DialogClosed
    /\ EnabledIds(sources) # <<>>
    /\ IF AllSelected
       THEN deselectAllSources /\ Step([name |-> "deselectAllSources"])
       ELSE selectAllSources /\ Step([name |-> "selectAllSources"])
    /\ UNCHANGED <<autoRefreshInterval, nextId, exported, importData>>
    /\ UNCHANGED <<filterVars, cacheVars, mergeVars, queryVars, loadVars, evalVars>>

\* SettingsPage: the export button; from is history, the list the file was
\* written from
exportSources ==
    /\ CanStep
    /\ DialogClosed
    /\ Len(sources) # 0
    /\ exported' = <<[file |-> Payload(sources), from |-> sources]>>
    /\ Step([name |-> "exportSources"])
    /\ UNCHANGED <<autoRefreshInterval, nextId, importData>>
    /\ UNCHANGED <<storeVars, filterVars, cacheVars, mergeVars, queryVars, loadVars, evalVars>>

\* SettingsPage.handleImportFile, reader.onload included
handleImportFile(file) ==
    /\ CanStep
    /\ DialogClosed
    /\ importData' = IF ImportError(file) = "" THEN ListOf(file) ELSE <<>>
    /\ Step([name |-> "handleImportFile", error |-> ImportError(file)])
    /\ UNCHANGED <<autoRefreshInterval, nextId, exported>>
    /\ UNCHANGED <<storeVars, filterVars, cacheVars, mergeVars, queryVars, loadVars, evalVars>>

\* ImportDialog: newCount
NewCount(list) == Len(SelectSeq(list, LAMBDA s : s.id \notin SourceIds))

\* ImportDialog.handleConfirm; the button is disabled in merge mode without a new source
handleConfirm(mode) ==
    /\ CanStep
    /\ ~DialogClosed
    /\ ~(mode = "merge" /\ NewCount(importData[1]) = 0)
    /\ IF mode = "replace" THEN replaceSources(importData[1]) ELSE mergeSources(importData[1])
    /\ Step([name |-> IF mode = "replace" THEN "replaceSources" ELSE "mergeSources",
             incoming |-> importData[1], wasEmpty |-> sources = <<>>])
    /\ importData' = <<>>
    /\ UNCHANGED <<autoRefreshInterval, nextId, exported>>
    /\ UNCHANGED <<filterVars, cacheVars, mergeVars, queryVars, loadVars, evalVars>>

\* ImportDialog: cancel
ImportCancel ==
    /\ CanStep
    /\ ~DialogClosed
    /\ importData' = <<>>
    /\ Step([name |-> "onClose"])
    /\ UNCHANGED <<autoRefreshInterval, nextId, exported>>
    /\ UNCHANGED <<storeVars, filterVars, cacheVars, mergeVars, queryVars, loadVars, evalVars>>

\* the queryFn of useMergedLogs runs: fetchFromSource is called on each of
\* the sources it closes over
QueryFnRun ==
    /\ CanStep
    /\ DialogClosed
    /\ Step([name |-> "queryFn", fetched |-> ActiveSources])
    /\ UNCHANGED <<autoRefreshInterval, nextId, exported, importData>>
    /\ UNCHANGED <<storeVars, filterVars, cacheVars, mergeVars, queryVars, loadVars, evalVars>>

NextStore ==
    \/ \E type \in StoreTypes, name \in {"Alpha", ""}, key \in StoreKeys :
          FormAdd(type, name, key)
    \/ \E i \in 1..Len(sources) :
          \/ \E name \in StoreNames, key \in StoreKeys : FormSave(i, name, key)
          \/ CardRemove(i)
          \/ CardToggle(i)
          \/ SidebarToggle(i)
    \/ SidebarSelectAll
    \/ \E file \in Files : handleImportFile(file)
    \/ \E mode \in {"merge", "replace"} : handleConfirm(mode)
    \/ ImportCancel
    \/ QueryFnRun

SpecStore == InitStore /\ [][NextStore]_vars


(***************************************************************************)
(* Claims on the source store (SpecStore).                                 *)
(***************************************************************************)

\* the step is the operation called name
Called(name) == lastOp'.n # lastOp.n /\ lastOp'.name = name

\* C21: removing a source deletes it from the source list and from the
\* selection in the same step: after removeSource(id) no source has that id,
\* selectedSourceIds does not contain it, and the other sources and the
\* other selected ids are what they were, in the order they were.
C21_RemoveDeletesSourceAndSelection ==
    [][Called("removeSource") =>
         LET id == lastOp'.id IN
         /\ \A i \in 1..Len(sources') : sources'[i].id # id
         /\ \A k \in 1..Len(selectedSourceIds') : selectedSourceIds'[k] # id
         /\ sources' = SelectSeq(sources, LAMBDA s : s.id # id)
         /\ selectedSourceIds' = SelectSeq(selectedSourceIds, LAMBDA sid : sid # id)
      ]_vars

\* a selected source was removed while another source stays, selected
C21_Witness ==
    /\ lastOp.name = "removeSource"
    /\ lastOp.wasSelected
    /\ sources # <<>>
    /\ selectedSourceIds # <<>>

\* C23: an import in merge mode leaves every source of the store as it was
\* and appends exactly the incoming sources whose id the store did not hold,
\* in their order; an import in replace mode makes the source list the
\* incoming list.
C23_MergeSkipsReplaceReplaces ==
    [][/\ Called("mergeSources") =>
             LET incoming == lastOp'.incoming
                 fresh == SelectSeq(incoming,
                              LAMBDA s : \A i \in 1..Len(sources) : sources[i].id # s.id)
             IN /\ Len(sources') = Len(sources) + Len(fresh)
                /\ SubSeq(sources', 1, Len(sources)) = sources
                /\ SubSeq(sources', Len(sources) + 1, Len(sources')) = fresh
       /\ Called("replaceSources") => sources' = lastOp'.incoming
      ]_vars

\* a merge that skipped one incoming source and appended another
C23_Witness ==
    /\ lastOp.name = "mergeSources"
    /\ \E i \in 1..Len(lastOp.incoming) :
          /\ lastOp.incoming[i] \notin SeqToSet(sources)
          /\ lastOp.incoming[i].id \in SourceIds
    /\ \E i \in 1..Len(lastOp.incoming) : lastOp.incoming[i] \in SeqToSet(sources)

\* C26: the merged query calls fetchPage only on sources that are, when it
\* runs, in the store, enabled and selected, whatever operations came before.
C26_OnlyEnabledSelectedFetched ==
    lastOp.name = "queryFn" =>
        \A i \in 1..Len(lastOp.fetched) :
            LET src == lastOp.fetched[i] IN
            /\ src \in SeqToSet(sources)
            /\ src.enabled
            /\ \E k \in 1..Len(selectedSourceIds) : selectedSourceIds[k] = src.id

\* a query ran and fetched while a selected source was disabled
C26_Witness ==
    /\ lastOp.name = "queryFn"
    /\ lastOp.fetched # <<>>
    /\ \E i \in 1..Len(sources) :
          /\ ~sources[i].enabled
          /\ sources[i].id \in SeqToSet(selectedSourceIds)

\* C27: every id in selectedSourceIds is the id of a source of the store and
\* appears in selectedSourceIds once.
C27_SelectionOfStoreIdsOnce ==
    /\ \A k \in 1..Len(selectedSourceIds) : selectedSourceIds[k] \in SourceIds
    /\ \A k, l \in 1..Len(selectedSourceIds) :
          selectedSourceIds[k] = selectedSourceIds[l] => k = l

\* C28: no two sources of the store have the same id.
C28_SourceIdsUnique ==
    \A i, j \in 1..Len(sources) : sources[i].id = sources[j].id => i = j

\* C29: saving an edit of a source through the form leaves its id, its color
\* and its enabled flag as they were, leaves selectedSourceIds as it was and
\* leaves every other source as it was.
C29_EditKeepsIdColorEnabled ==
    [][Called("updateSource") =>
         LET i == lastOp'.index IN
         /\ Len(sources') = Len(sources)
         /\ sources'[i].id = sources[i].id
         /\ sources'[i].color = sources[i].color
         /\ sources'[i].enabled = sources[i].enabled
         /\ selectedSourceIds' = selectedSourceIds
         /\ \A j \in 1..Len(sources) : j # i => sources'[j] = sources[j]
      ]_vars


(***************************************************************************)
(* SpecRoundTrip: export and re-import.                                    *)
(*                                                                         *)
(* The store is persisted (zustand persist): the page starts with the      *)
(* sources of an earlier session.  A source is as the form built it (its   *)
(* optional key present, holding undefined when the field was left empty)  *)
(* or as the persisted JSON gave it back (the key absent).  The user       *)
(* exports, removes sources and imports a file.                            *)
(***************************************************************************)
MaxStored == 2          \* sources of the persisted store

\* the sources the form can have made out of its n-th add
StoredSources(n) ==
    LET built == {[Spread(buildSource("api", "Alpha", "u1", key, "d1"),
                          [id |-> randomUUID(n), color |-> SOURCE_COLORS[n]])
                      EXCEPT !.enabled = enabled] :
                     key \in StoreKeys, enabled \in BOOLEAN}
    IN built \cup {JsonObject(src) : src \in built}

InitRoundTrip ==
    /\ \E n \in 1..MaxStored :
          /\ sources \in [1..n -> UNION {StoredSources(k) : k \in 1..n}]
          /\ \A i \in 1..n : sources[i].id = randomUUID(i)
          /\ nextId = n
    /\ selectedSourceIds = EnabledIds(sources)
    /\ FilterStoreInit
    /\ CacheIdle
    /\ MergeIdle
    /\ QueryIdle
    /\ LoadIdle
    /\ EvalIdle
    /\ autoRefreshInterval = 0
    /\ lastOp = [name |-> "none", n |-> 0]
    /\ exported = <<>>
    /\ importData = <<>>

NextRoundTrip ==
    \/ exportSources
    \/ \E i \in 1..Len(sources) : CardRemove(i)
    \/ \E file \in Files : handleImportFile(file)
    \/ \E mode \in {"merge", "replace"} : handleConfirm(mode)
    \/ ImportCancel

SpecRoundTrip == InitRoundTrip /\ [][NextRoundTrip]_vars

(***************************************************************************)
(* Claims on export and import (SpecRoundTrip).                            *)
(***************************************************************************)

\* field for field: every key reads the same in both objects
SameFields(a, b) == \A key \in DOMAIN a \cup DOMAIN b : Get(a, key) = Get(b, key)

\* the last step imported, in merge mode and into an empty store, the list
\* of the exported file
ReimportedIntoEmpty ==
    /\ lastOp.name = "mergeSources"
    /\ lastOp.wasEmpty
    /\ exported # <<>>
    /\ lastOp.incoming = exported[1].file.object.sources

\* C22: exporting a source set to {version, exportedAt, sources} and
\* importing that document in merge mode into an empty store gives a source
\* list with the exported sources, field for field and in the same order.
C22_ExportImportRoundTrip ==
    ReimportedIntoEmpty =>
        /\ Len(sources) = Len(exported[1].from)
        /\ \A i \in 1..Len(sources) : SameFields(sources[i], exported[1].from[i])

\* two sources went through the file, one disabled, one with its optional
\* key holding undefined when it was exported
C22_Witness ==
    /\ ReimportedIntoEmpty
    /\ Len(exported[1].from) = 2
    /\ \E i \in 1..2 : ~exported[1].from[i].enabled
    /\ \E i \in 1..2 :
          /\ "anonKey" \in DOMAIN exported[1].from[i]
          /\ exported[1].from[i].anonKey = undefined


(***************************************************************************)
(* SpecControls: the filter store under the controls of the logs page.     *)
(*                                                                         *)
(* The filter bar sets and resets filters, chooses the auto-refresh        *)
(* interval and triggers a refresh; the table header sets the sort; the    *)
(* table footer sets the page size and moves one page back or forth.       *)
(***************************************************************************)
ControlPartials == {[method |-> "GET"], [method |-> ""], [appName |-> "shop"]}
ControlFields == {"requestTime", "processingTimeMs"}
PageSizeOptions == {25, 50}
AUTO_REFRESH_OPTIONS == {0, 5000}

\* filterStore.resetFilters
resetFilters ==
    /\ filters' = defaultFilters
    /\ page' = 0
    /\ UNCHANGED <<sort, pageSize, refreshTick, autoRefreshInterval>>

\* set({ pageSize }): the page index stays
setPageSizeKeepingPage(size) ==
    /\ pageSize' = size
    /\ UNCHANGED <<filters, sort, page, refreshTick, autoRefreshInterval>>

\* filterStore.setSort
setSort(s) ==
    /\ sort' = s
    /\ page' = 0
    /\ UNCHANGED <<filters, pageSize, refreshTick, autoRefreshInterval>>

\* filterStore.setPageSize
setPageSize(size) ==
    /\ pageSize' = size
    /\ page' = 0
    /\ UNCHANGED <<filters, sort, refreshTick, autoRefreshInterval>>

\* filterStore.setAutoRefreshInterval
setAutoRefreshInterval(ms) ==
    /\ autoRefreshInterval' = ms
    /\ UNCHANGED <<filters, sort, page, pageSize, refreshTick>>

InitControls ==
    /\ sources = <<>>
    /\ selectedSourceIds = <<>>
    /\ FilterStoreInit
    /\ CacheIdle
    /\ MergeIdle
    /\ QueryIdle
    /\ RestIdle

ControlsIdle == UNCHANGED <<storeVars, cacheVars, mergeVars, queryVars, loadVars, evalVars,
                            nextId, exported, importData>>

\* the state of the store before the operation, kept with the operation
Before == [pageBefore |-> page, tickBefore |-> refreshTick]

\* an input of the filter bar changes
FilterChange(partial) ==
    /\ CanStep
    /\ setFilters(partial)
    /\ UNCHANGED autoRefreshInterval
    /\ Step(Spread(Before, [name |-> "setFilters"]))
    /\ ControlsIdle

\* the reset button of the filter bar
FilterReset ==
    /\ CanStep
    /\ resetFilters
    /\ Step(Spread(Before, [name |-> "resetFilters"]))
    /\ ControlsIdle

\* LogTable.handleSort: a click on a sortable column header
handleSort(field) ==
    /\ CanStep
    /\ setSort([field |-> field,
                direction |-> IF sort.field = field /\ sort.direction = "asc"
                              THEN "desc" ELSE "asc"])
    /\ Step(Spread(Before, [name |-> "setSort"]))
    /\ ControlsIdle

\* the arrows of the table footer: setPage(page - 1), setPage(page + 1)
PageMove(d) ==
    /\ CanStep
    /\ page + d >= 0
    /\ page + d <= MaxPageIndex
    /\ setPage(page + d)
    /\ UNCHANGED autoRefreshInterval
    /\ Step(Spread(Before, [name |-> "setPage"]))
    /\ ControlsIdle

\* the rows-per-page select of the table footer
PageSizeChange(size) ==
    /\ CanStep
    /\ setPageSize(size)
    /\ Step(Spread(Before, [name |-> "setPageSize"]))
    /\ ControlsIdle

\* the auto-refresh select of the filter bar
AutoRefreshChange(ms) ==
    /\ CanStep
    /\ setAutoRefreshInterval(ms)
    /\ Step(Spread(Before, [name |-> "setAutoRefreshInterval"]))
    /\ ControlsIdle

\* the refresh button of the filter bar
RefreshClick ==
    /\ CanStep
    /\ triggerRefresh
    /\ UNCHANGED autoRefreshInterval
    /\ Step(Spread(Before, [name |-> "triggerRefresh"]))
    /\ ControlsIdle

NextControls ==
    \/ \E partial \in ControlPartials : FilterChange(partial)
    \/ FilterReset
    \/ \E field \in ControlFields : handleSort(field)
    \/ \E d \in {-1, 1} : PageMove(d)
    \/ \E size \in PageSizeOptions : PageSizeChange(size)
    \/ \E ms \in AUTO_REFRESH_OPTIONS : AutoRefreshChange(ms)
    \/ RefreshClick

SpecControls == InitControls /\ [][NextControls]_vars

\* C30: setFilters, resetFilters, setSort and setPageSize set the page index to
\* 0; setPage, setAutoRefreshInterval and triggerRefresh leave filters, sort and
\* page size unchanged; triggerRefresh increases the tick by exactly 1 and
\* leaves the page index unchanged; the tick never decreases.
C30_PageResetAndTick ==
    [][ /\ (Called("setFilters") \/ Called("resetFilters") \/ Called("setSort")
              \/ Called("setPageSize")) => page' = 0
        /\ (Called("setPage") \/ Called("setAutoRefreshInterval")
              \/ Called("triggerRefresh")) => UNCHANGED <<filters, sort, pageSize>>
        /\ Called("triggerRefresh") => (refreshTick' = refreshTick + 1 /\ page' = page)
        /\ refreshTick' >= refreshTick ]_vars

\* the page size was changed on a later page, after a refresh
C30_Witness ==
    /\ lastOp.name = "setPageSize"
    /\ lastOp.pageBefore > 0
    /\ page = 0
    /\ refreshTick > 0
    /\ filters # defaultFilters

====
